---------------------------- MODULE Spec2Model ----------------------------
(***************************************************************************)
(* Model of the TensorFlow-Lite audio pipeline of arduino-audio-tools      *)
(* (src/src/AudioLibs/TfLiteAudioStream.h):                                *)
(*   - TfLiteResultsQueue and TfLiteMicroSpeechRecognizeCommands (the      *)
(*     command voter), specification Spec;                                 *)
(*   - TfLiteMicroSpeachWriter (sample ring, slice shift, batching),       *)
(*     specification SpecWriter.                                           *)
(* C++ objects are records whose fields carry the member names.            *)
(***************************************************************************)
EXTENDS Integers, Sequences, FiniteSets, TLC

(***************************************************************************)
(* Program constants                                                       *)
(***************************************************************************)
\* TfLiteResultsQueue::kMaxResults
kMaxResults == 50
\* std::numeric_limits<int32_t>::min() / max()
Int32Min == -2147483647 - 1
Int32Max == 2147483647
\* the string literal "silence" of the constructor, as a pointer value that
\* is distinct from every entry cfg.labels[i] (entry i is the integer i)
SilenceLiteral == -1
\* nullptr for a const char*
NullLabel == -2

(***************************************************************************)
(* Bounds of the model                                                     *)
(***************************************************************************)
\* processLatestResults calls per behaviour of Spec
MaxCalls == 3

\* C integer division truncates toward zero
CDiv(a, b) == IF a >= 0 THEN a \div b ELSE -((-a) \div b)

(***************************************************************************)
(* TfLiteConfig                                                            *)
(***************************************************************************)
\* a default-constructed TfLiteConfig (no categories, no labels)
DefaultConfig ==
  [ sample_rate |-> 16000, channels |-> 1,
    kFeatureSliceSize |-> 40, kFeatureSliceCount |-> 49,
    kFeatureSliceStrideMs |-> 20, kFeatureSliceDurationMs |-> 30,
    kSlicesToProcess |-> 2,
    average_window_duration_ms |-> 1000, detection_threshold |-> 200,
    suppression_ms |-> 1500, minimum_count |-> 3,
    kCategoryCount |-> 0, labels |-> FALSE ]

\* TfLiteConfig::setCategories with an array of N labels
setCategories(c, N) == [c EXCEPT !.kCategoryCount = N, !.labels = TRUE]

\* the configurations handed to begin() in Spec: three categories (0 is the
\* background label) with detection threshold 100, the default window of
\* 1000 ms and (suppression_ms, minimum_count) one of (1500, 3), (1500, 2),
\* (100, 2); and a configuration without categories
VoterConfigs ==
  { setCategories([DefaultConfig EXCEPT !.detection_threshold = 100,
                                        !.suppression_ms = p[1],
                                        !.minimum_count = p[2]], 3)
      : p \in { <<1500, 3>>, <<1500, 2>>, <<100, 2>> } }
  \cup { DefaultConfig }

\* configurations with the largest suppression_ms an int32_t holds
LongSuppressionConfigs ==
  { setCategories([DefaultConfig EXCEPT !.detection_threshold = 100,
                                        !.suppression_ms = Int32Max,
                                        !.minimum_count = n], 3)
      : n \in {2, 3} }

\* a configuration whose averaging window, 600 ms, is shorter than the time
\* the calls of SpecPrune span
PruneConfigs ==
  { setCategories([DefaultConfig EXCEPT !.detection_threshold = 100,
                                        !.average_window_duration_ms = 600,
                                        !.minimum_count = 2], 3) }

\* timestamps handed to processLatestResults in SpecPrune, and the number
\* of calls made
PruneTimes == {10, 200, 600, 1000}
MaxPruneCalls == 4

\* timestamps handed to processLatestResults in Spec
Times == {0, 10, 200, 400, 600}

\* the number of write(sample) calls
MaxWrites == 7

\* configurations of the writer: 1 kHz, slices of 3 ms every 2 ms (3 samples,
\* stride 2, 1 kept), 3 slices of 2 features, batches of 1 or 2 slices, one
\* or two channels; and the default configuration, which has no categories
WriterConfigs ==
  { setCategories([DefaultConfig EXCEPT
       !.sample_rate = 1000, !.channels = p[1],
       !.kFeatureSliceSize = 2, !.kFeatureSliceCount = 3,
       !.kFeatureSliceStrideMs = 2, !.kFeatureSliceDurationMs = 3,
       !.kSlicesToProcess = p[2],
       !.average_window_duration_ms = 8, !.detection_threshold = 100,
       !.suppression_ms = 4, !.minimum_count = 2], 3)
      : p \in { <<1, 1>>, <<1, 2>>, <<2, 2>> } }
  \cup { DefaultConfig }

\* configurations of the writer whose slices do not overlap: 1 kHz, slices
\* of 2 ms every 3 ms (2 samples, stride 3), one channel
CadenceConfigs ==
  { setCategories([DefaultConfig EXCEPT
       !.sample_rate = 1000, !.channels = 1,
       !.kFeatureSliceSize = 2, !.kFeatureSliceCount = 3,
       !.kFeatureSliceStrideMs = 3, !.kFeatureSliceDurationMs = 2,
       !.kSlicesToProcess = n,
       !.average_window_duration_ms = 8, !.detection_threshold = 100,
       !.suppression_ms = 4, !.minimum_count = 2], 3)
      : n \in {1, 2} }

\* the configuration of a writer that is begun more than once: as in
\* WriterConfigs with one channel and batches of one slice, and an averaging
\* window of 1 ms, so that the voter keeps only the latest result
RestartWriterConfigs ==
  { setCategories([DefaultConfig EXCEPT
       !.sample_rate = 1000, !.channels = 1,
       !.kFeatureSliceSize = 2, !.kFeatureSliceCount = 3,
       !.kFeatureSliceStrideMs = 2, !.kFeatureSliceDurationMs = 3,
       !.kSlicesToProcess = 1,
       !.average_window_duration_ms = 1, !.detection_threshold = 100,
       !.suppression_ms = 4, !.minimum_count = 1], 3) }

\* the number of batches the pipeline with the default configuration is
\* followed for: more than kMaxResults, and more than two averaging windows
MaxBatches == 60

\* the first batches of that pipeline, in which Invoke() may fail
FlakyBatches == 5

\* the number of slices the writer is followed for when the caller never
\* stops writing
MaxSlices == 3

\* int16 samples handed to write()
Samples == {300, -51}

\* outputs of FrontendProcessSamples for one slice of 2 features
RawSlices == { <<0, 700>>, <<100, 400>> }

\* int8 score vectors (category 0, 1, 2) of the output tensor: biased score
\* 120 for one category, 0 for the others
ScoreVecs == { <<-8, -128, -128>>, <<-128, -8, -128>>, <<-128, -128, -8>> }

\* values a read of freed or uninitialized score memory may return: biased
\* score 120 for category 0, or 100 (the threshold) for category 1
HeapReads == { <<-8, -128, -128>>, <<-128, -28, -128>> }

\* output tensors of the interpreter handed to processLatestResults
Tensors ==
  { [dims |-> <<1, 3>>, type |-> "kTfLiteInt8", data |-> v] : v \in ScoreVecs }
  \cup { [dims |-> <<1, 4>>, type |-> "kTfLiteInt8", data |-> <<-128, -128, -128>>],
         [dims |-> <<1, 3>>, type |-> "kTfLiteFloat32", data |-> <<-128, -128, -128>>] }

(***************************************************************************)
(* TfLiteResultsQueue                                                      *)
(***************************************************************************)
\* a score array: ptr is "null", "uninit" (new int8_t[n], never written),
\* "owned" (allocated and written), "shared" (pointer copied from another
\* Result that still owns it) or "freed" (the owner deleted it: dangling);
\* data is what was last written to the block
NullScores == [ptr |-> "null", data |-> <<>>]

\* Result() = default
DefaultResult == [kCategoryCount |-> 0, time_ |-> 0, scores |-> NullScores]

\* Result(int categoryCount, int32_t time, int8_t* input_scores)
NewResult(categoryCount, time, input_scores) ==
  [ kCategoryCount |-> categoryCount, time_ |-> time,
    scores |-> [ptr |-> "owned", data |-> SubSeq(input_scores, 1, categoryCount)] ]

\* Result::setCategoryCount: a fresh uninitialized array replaces the pointer
setCategoryCount(r, count) ==
  [r EXCEPT !.kCategoryCount = count, !.scores = [ptr |-> "uninit", data |-> <<>>]]

\* the implicit copy assignment of Result used by back() = entry: memberwise,
\* so the slot takes the pointer of the entry and shares its array
CopyAssign(entry) ==
  [entry EXCEPT !.scores.ptr = IF entry.scores.ptr = "owned" THEN "shared"
                               ELSE entry.scores.ptr]

\* a default-constructed TfLiteResultsQueue
NewQueue ==
  [ results_ |-> [j \in 0 .. kMaxResults - 1 |-> DefaultResult],
    kCategoryCount |-> 0, front_index_ |-> 0, size_ |-> 0 ]

\* TfLiteResultsQueue::begin
QueueBegin(q, categoryCount) ==
  [q EXCEPT !.kCategoryCount = categoryCount,
            !.results_ = [j \in 0 .. kMaxResults - 1 |->
                            setCategoryCount(q.results_[j], categoryCount)]]

size(q) == q.size_
empty(q) == q.size_ = 0
front(q) == q.results_[q.front_index_]

BackIndex(q) ==
  LET back_index == q.front_index_ + (q.size_ - 1)
  IN IF back_index >= kMaxResults THEN back_index - kMaxResults ELSE back_index

back(q) == q.results_[BackIndex(q)]

\* push_back without the test for a full queue
push_back_Unchecked(q, entry) ==
  LET q1 == [q EXCEPT !.size_ = q.size_ + 1]
  IN [q1 EXCEPT !.results_[BackIndex(q1)] = CopyAssign(entry)]

push_back(q, entry) ==
  IF size(q) >= kMaxResults THEN q
  ELSE LET q1 == [q EXCEPT !.size_ = q.size_ + 1]
       IN [q1 EXCEPT !.results_[BackIndex(q1)] = CopyAssign(entry)]

\* the queue after pop_front (the returned copy is discarded by the caller)
pop_front(q) ==
  IF size(q) <= 0 THEN q
  ELSE [q EXCEPT !.front_index_ = IF q.front_index_ + 1 >= kMaxResults THEN 0
                                  ELSE q.front_index_ + 1,
                 !.size_ = q.size_ - 1]

from_front(q, offset) ==
  LET off == IF (offset < 0) \/ (offset >= q.size_) THEN q.size_ - 1 ELSE offset
      index == q.front_index_ + off
  IN q.results_[IF index >= kMaxResults THEN index - kMaxResults ELSE index]

\* the destructor of the temporary Result built for push_back: its array is
\* deleted, and the slot that took its pointer (the back, when the push was
\* not refused) is left dangling
DestroyTemporary(q) ==
  IF (~empty(q)) /\ back(q).scores.ptr = "shared"
  THEN [q EXCEPT !.results_[BackIndex(q)].scores.ptr = "freed"]
  ELSE q

\* the timestamps of the queue in enqueue order, front first
QueueTimes(q) == [k \in 1 .. q.size_ |-> from_front(q, k - 1).time_]

(***************************************************************************)
(* TfLiteMicroSpeechRecognizeCommands                                      *)
(***************************************************************************)
kTfLiteOk == "kTfLiteOk"
kTfLiteError == "kTfLiteError"

\* the object after its constructor
NewRecognizer ==
  [ cfg |-> DefaultConfig, kCategoryCount |-> 0, started |-> FALSE,
    previous_results_ |-> NewQueue,
    previous_top_label_ |-> SilenceLiteral,
    previous_top_label_time_ |-> Int32Min ]

\* TfLiteMicroSpeechRecognizeCommands::begin: the object after the call and
\* the value returned
begin(rc, cfg) ==
  LET rc1 == [rc EXCEPT !.cfg = cfg, !.kCategoryCount = cfg.kCategoryCount]
  IN IF rc1.kCategoryCount = 0 THEN [rc |-> rc1, result |-> FALSE]
     ELSE IF cfg.labels = FALSE THEN [rc |-> rc1, result |-> FALSE]
     ELSE [ rc |-> [rc1 EXCEPT !.previous_results_ =
                                  QueueBegin(rc.previous_results_, rc1.kCategoryCount),
                                !.started = TRUE],
            result |-> TRUE ]

\* the shape test on the output tensor
BadShape(latest_results, kCategoryCount) ==
  \/ Len(latest_results.dims) # 2
  \/ latest_results.dims[1] # 1
  \/ latest_results.dims[2] # kCategoryCount

BadType(latest_results) == latest_results.type # "kTfLiteInt8"

\* the time order test
OutOfOrder(q, current_time_ms) ==
  (~empty(q)) /\ (current_time_ms < front(q).time_)

\* the tests that end processLatestResults with kTfLiteError
Rejected(rc, latest_results, current_time_ms) ==
  \/ ~rc.started
  \/ BadShape(latest_results, rc.kCategoryCount)
  \/ BadType(latest_results)
  \/ OutOfOrder(rc.previous_results_, current_time_ms)

\* a pruning loop that removes nothing
Prune_Never(q, time_limit) == q

\* the pruning loop
RECURSIVE Prune(_, _)
Prune(q, time_limit) ==
  IF (~empty(q)) /\ front(q).time_ < time_limit
  THEN Prune(pop_front(q), time_limit)
  ELSE q

\* the queue after the latest result is added and the old ones are pruned
AddAndPrune(rc, latest_results, current_time_ms) ==
  LET q1 == DestroyTemporary(
              push_back(rc.previous_results_,
                        NewResult(rc.kCategoryCount, current_time_ms,
                                  latest_results.data)))
      time_limit == current_time_ms - rc.cfg.average_window_duration_ms
  IN Prune(q1, time_limit)

\* mutant: only the number of results is tested
TooFewResults_CountOnly(q, cfg, current_time_ms) ==
  size(q) < cfg.minimum_count

\* "too few results": the test that makes the call bail out
TooFewResults(q, cfg, current_time_ms) ==
  LET how_many_results == size(q)
      earliest_time == front(q).time_
      samples_duration == current_time_ms - earliest_time
  IN \/ how_many_results < cfg.minimum_count
     \/ samples_duration < CDiv(cfg.average_window_duration_ms, 4)

\* the scores the averaging loop reads from a stored result: the array when
\* the result owns it, otherwise (freed or never written) whatever the
\* memory holds, given as garbage
ReadScores(result, garbage) ==
  IF result.scores.ptr \in {"owned", "shared"} THEN result.scores.data
  ELSE garbage

\* the sum over offsets 0 .. n-1 of scores[i] + 128 (i counted from 0)
RECURSIVE SumScores(_, _, _, _)
SumScores(q, reads, i, n) ==
  IF n = 0 THEN 0
  ELSE SumScores(q, reads, i, n - 1)
       + ReadScores(from_front(q, n - 1), reads[n - 1])[i + 1] + 128

\* average_scores[i] for i in 0 .. kCategoryCount-1
AverageScores(q, reads, kCategoryCount) ==
  [i \in 0 .. kCategoryCount - 1 |-> CDiv(SumScores(q, reads, i, size(q)), size(q))]

\* the loop that finds the highest scoring category: the pair
\* (current_top_index, current_top_score) after categories 0 .. n-1
RECURSIVE TopOf(_, _)
TopOf(average_scores, n) ==
  IF n = 0 THEN [index |-> 0, score |-> 0]
  ELSE LET t == TopOf(average_scores, n - 1)
       IN IF average_scores[n - 1] > t.score
          THEN [index |-> n - 1, score |-> average_scores[n - 1]]
          ELSE t

\* mutant: the elapsed time is never computed
TimeSinceLastTop_Never(rc, current_time_ms) == Int32Max

\* time_since_last_top
TimeSinceLastTop(rc, current_time_ms) ==
  IF (rc.previous_top_label_ = 0) \/ (rc.previous_top_label_time_ = Int32Min)
  THEN Int32Max
  ELSE current_time_ms - rc.previous_top_label_time_

\* mutant: the threshold comparison is not strict
IsNewCommand_NotStrict(rc, current_top_label, current_top_score, current_time_ms) ==
  /\ current_top_score >= rc.cfg.detection_threshold
  /\ \/ current_top_label # rc.previous_top_label_
     \/ TimeSinceLastTop(rc, current_time_ms) > rc.cfg.suppression_ms

\* the condition under which a new command is reported
IsNewCommand(rc, current_top_label, current_top_score, current_time_ms) ==
  /\ current_top_score > rc.cfg.detection_threshold
  /\ \/ current_top_label # rc.previous_top_label_
     \/ TimeSinceLastTop(rc, current_time_ms) > rc.cfg.suppression_ms

\* what the caller holds in its out-parameters before the call
\* (processSlices: found_command = nullptr, score = 0, is_new_command = false)
Untouched(rc, status) ==
  [ rc |-> rc, status |-> status, found_command |-> NullLabel, score |-> 0,
    is_new_command |-> FALSE ]

\* the part of processLatestResults after the checks
Accept(rc, latest_results, current_time_ms, reads) ==
  LET q == AddAndPrune(rc, latest_results, current_time_ms)
      rc1 == [rc EXCEPT !.previous_results_ = q]
  IN IF TooFewResults(q, rc.cfg, current_time_ms)
     THEN [ rc |-> rc1, status |-> kTfLiteOk,
            found_command |-> rc.previous_top_label_, score |-> 0,
            is_new_command |-> FALSE ]
     ELSE LET average_scores == AverageScores(q, reads, rc.kCategoryCount)
              top == TopOf(average_scores, rc.kCategoryCount)
              current_top_label == top.index
              new == IsNewCommand(rc, current_top_label, top.score, current_time_ms)
          IN [ rc |-> IF new
                      THEN [rc1 EXCEPT !.previous_top_label_ = current_top_label,
                                       !.previous_top_label_time_ = current_time_ms]
                      ELSE rc1,
               status |-> kTfLiteOk,
               found_command |-> current_top_label,
               score |-> top.score % 256,
               is_new_command |-> new ]

\* mutant: the latest result is added before the time order is tested
processLatestResults_AddFirst(rc, latest_results, current_time_ms, reads) ==
  IF (~rc.started) \/ BadShape(latest_results, rc.kCategoryCount)
     \/ BadType(latest_results)
  THEN Untouched(rc, kTfLiteError)
  ELSE IF OutOfOrder(rc.previous_results_, current_time_ms)
  THEN Untouched([rc EXCEPT !.previous_results_ =
                     AddAndPrune(rc, latest_results, current_time_ms)],
                 kTfLiteError)
  ELSE Accept(rc, latest_results, current_time_ms, reads)

\* TfLiteMicroSpeechRecognizeCommands::processLatestResults: the object after
\* the call, the status returned and the out-parameters
processLatestResults(rc, latest_results, current_time_ms, reads) ==
  IF Rejected(rc, latest_results, current_time_ms)
  THEN Untouched(rc, kTfLiteError)
  ELSE Accept(rc, latest_results, current_time_ms, reads)

\* What the averaging loop of a call may read from the stored results, as
\* functions from the offset to the score vector read.  Every stored array
\* is freed or uninitialized memory when it is read: the reads may return
\* one arbitrary vector for all offsets (the blocks are reused), or, when
\* every block was written before it was freed, what was last written to
\* each.  A call that reads nothing has the empty function only.
HeapViews(rc, latest_results, current_time_ms) ==
  IF Rejected(rc, latest_results, current_time_ms) THEN { <<>> }
  ELSE LET q == AddAndPrune(rc, latest_results, current_time_ms)
           offsets == 0 .. size(q) - 1
       IN IF TooFewResults(q, rc.cfg, current_time_ms) THEN { <<>> }
          ELSE { [o \in offsets |-> g] : g \in HeapReads }
               \cup IF \A o \in offsets : from_front(q, o).scores.ptr = "freed"
                    THEN { [o \in offsets |-> from_front(q, o).scores.data] }
                    ELSE {}

(***************************************************************************)
(* audio_tools::RingBuffer<int16_t> (AudioTools/Buffers.h, not part of the  *)
(* sources at hand: modelled after the SampleRing contract of the design)   *)
(***************************************************************************)
Min(a, b) == IF a <= b THEN a ELSE b

\* p_buffer == nullptr
NullBuffer == [allocated |-> FALSE, max_size |-> 0, data |-> <<>>]

\* new RingBuffer<int16_t>(capacity): empty, fixed capacity
NewRingBuffer(capacity) ==
  [allocated |-> TRUE, max_size |-> capacity, data |-> <<>>]

\* RingBuffer::availableForWrite
availableForWrite(b) == b.max_size - Len(b.data)

\* a ring that overwrites its oldest sample when it is full
RingBuffer_write_Overwrite(b, sample) ==
  IF availableForWrite(b) > 0 THEN [b EXCEPT !.data = Append(@, sample)]
  ELSE [b EXCEPT !.data = Append(Tail(@), sample)]

\* what RingBuffer::write returns: false when the sample was rejected
\* (Overflow)
RingBuffer_writeResult(b, sample) == availableForWrite(b) > 0

\* RingBuffer::write: appends one sample if there is room, else rejects it
RingBuffer_write(b, sample) ==
  IF availableForWrite(b) > 0 THEN [b EXCEPT !.data = Append(@, sample)] ELSE b

\* a readArray that leaves the samples it returns in the ring
readArray_Peek(b, maxCount) ==
  LET count == Min(maxCount, Len(b.data))
  IN [ buffer |-> b, values |-> SubSeq(b.data, 1, count), count |-> count ]

\* RingBuffer::readArray: drains up to maxCount samples, oldest first
readArray(b, maxCount) ==
  LET count == Min(maxCount, Len(b.data))
  IN [ buffer |-> [b EXCEPT !.data = SubSeq(@, count + 1, Len(@))],
       values |-> SubSeq(b.data, 1, count),
       count |-> count ]

\* RingBuffer::writeArray: writes the samples one by one
RECURSIVE writeArray(_, _)
writeArray(b, samples) ==
  IF samples = <<>> THEN b
  ELSE writeArray(RingBuffer_write(b, Head(samples)), Tail(samples))

\* the capacity of the ring that is used on its own
RingCapacity == 4

\* that ring after construction; op, result and values record the last call
\* made on it and what the call returned
NewRing ==
  [ buffer |-> NewRingBuffer(RingCapacity), op |-> "none", result |-> FALSE,
    values |-> <<>> ]

(***************************************************************************)
(* TfLiteMicroSpeachWriter                                                 *)
(***************************************************************************)
\* TfLiteConfig::featureElementCount
featureElementCount(c) == c.kFeatureSliceSize * c.kFeatureSliceCount

\* TfLiteConfig::audioSampleSize
audioSampleSize(c) == c.kFeatureSliceDurationMs * CDiv(c.sample_rate, 1000)

\* TfLiteConfig::strideSampleSize
strideSampleSize(c) == c.kFeatureSliceStrideMs * CDiv(c.sample_rate, 1000)

\* the writer after construction: the pointers are null, channel,
\* current_time and total_slice_count are 0; the sample sizes and last_value
\* have no initializer and are assigned before they are read
NewWriter ==
  [ cfg |-> DefaultConfig, parent |-> "nullptr",
    p_feature_data |-> <<>>, p_audio_samples |-> <<>>, p_buffer |-> NullBuffer,
    kMaxAudioSampleSize |-> 0, kStrideSampleSize |-> 0, kKeepSampleSize |-> 0,
    last_value |-> 0, channel |-> 0, current_time |-> 0,
    total_slice_count |-> 0 ]

\* the parts of the parent stream the writer uses: the model input buffer
\* and the interpreter (the number of Invoke() calls made on it and the
\* status the last one returned)
NewParent ==
  [p_tensor_buffer |-> <<>>, invocations |-> 0, invoke_status |-> "none"]

\* what the respondToCommand callback was last called with, and how often
NoResponse ==
  [calls |-> 0, found_command |-> NullLabel, score |-> 0, is_new_command |-> FALSE]

\* memset(p, 0, n)
Zeros(n) == [k \in 1 .. n |-> 0]

\* TfLiteMicroSpeachWriter::begin(parent): sys holds the writer and the
\* recognizer cfg.recognizeCommands points to; populate_ok is the result of
\* FrontendPopulateState
TfLiteMicroSpeachWriter_begin(sys, cfg, populate_ok) ==
  LET w1 == [sys.writer EXCEPT
               !.parent = "parent", !.cfg = cfg, !.current_time = 0,
               !.kMaxAudioSampleSize = audioSampleSize(cfg),
               !.kStrideSampleSize = strideSampleSize(cfg),
               !.kKeepSampleSize = audioSampleSize(cfg) - strideSampleSize(cfg)]
      setup_recognizer == begin(sys.recognizer, cfg)
      s1 == [sys EXCEPT !.writer = w1, !.recognizer = setup_recognizer.rc]
  IN IF ~setup_recognizer.result THEN [sys |-> s1, result |-> FALSE]
     ELSE IF ~populate_ok THEN [sys |-> s1, result |-> FALSE]
     ELSE [ sys |-> [s1 EXCEPT
                !.writer.p_buffer =
                   IF ~@.allocated THEN NewRingBuffer(w1.kMaxAudioSampleSize) ELSE @,
                !.writer.p_feature_data =
                   IF @ = <<>> THEN Zeros(featureElementCount(cfg)) ELSE @,
                !.writer.p_audio_samples =
                   IF @ = <<>> THEN Zeros(w1.kMaxAudioSampleSize) ELSE @],
            result |-> TRUE ]

\* TfLiteMicroSpeachWriter::write1: the else has no braces, so channel = 0
\* is executed on every call with more than one channel
write1(w, sample) ==
  LET w1 ==
        IF w.cfg.channels = 1
        THEN [w EXCEPT !.p_buffer = RingBuffer_write(@, sample)]
        ELSE LET w2 == IF w.channel = 0
                       THEN [w EXCEPT !.last_value = sample, !.channel = 1]
                       ELSE [w EXCEPT !.p_buffer =
                               RingBuffer_write(@, CDiv(sample, 2)
                                                   + CDiv(w.last_value, 2))]
             IN [w2 EXCEPT !.channel = 0]
  IN [writer |-> w1, result |-> availableForWrite(w1.p_buffer) > 0]

\* the rescaling of one frontend value to int8 in generateMicroFeatures
value_div == 666

\* a rescaling that does not round to the nearest value
Rescale_NoRounding(raw) ==
  LET value == CDiv(raw * 256, value_div) - 128
  IN IF value < -128 THEN -128 ELSE IF value > 127 THEN 127 ELSE value

Rescale(raw) ==
  LET value == CDiv((raw * 256) + CDiv(value_div, 2), value_div) - 128
  IN IF value < -128 THEN -128 ELSE IF value > 127 THEN 127 ELSE value

\* the int32_t sum that is divided by value_div in the rescaling
RescaleSum(raw) == (raw * 256) + CDiv(value_div, 2)

\* the values of frontend_output.values[i], a uint16_t
RawValues == 0 .. 65535

\* the loop of generateMicroFeatures has not started; raw is the value read
\* from frontend_output, sum the int32_t sum and value what is stored in
\* output
NoFeatures == [op |-> "none", raw |-> 0, sum |-> 0, value |-> 0]

\* TfLiteMicroSpeachWriter::generateMicroFeatures: the values written to
\* output for the values frontend_output of FrontendProcessSamples
generateMicroFeatures(frontend_output) ==
  [i \in 1 .. Len(frontend_output) |-> Rescale(frontend_output[i])]

\* mutant: the memmove moves one slice less
ShiftSlices_OneLess(p_feature_data, cfg) ==
  [k \in 1 .. Len(p_feature_data) |->
     IF k <= (cfg.kFeatureSliceCount - 2) * cfg.kFeatureSliceSize
     THEN p_feature_data[k + cfg.kFeatureSliceSize]
     ELSE p_feature_data[k]]

\* addSlice, the memmove: the data moves down by one slice; the last slice
\* keeps its bytes
ShiftSlices(p_feature_data, cfg) ==
  [k \in 1 .. Len(p_feature_data) |->
     IF k <= (cfg.kFeatureSliceCount - 1) * cfg.kFeatureSliceSize
     THEN p_feature_data[k + cfg.kFeatureSliceSize]
     ELSE p_feature_data[k]]

\* mutant: the tail is taken from offset kKeepSampleSize
OverlapTail_FromKeep(p_audio_samples, kStrideSampleSize, kKeepSampleSize) ==
  SubSeq(p_audio_samples, kKeepSampleSize + 1, kKeepSampleSize + kKeepSampleSize)

\* addSlice, the samples handed to writeArray: kKeepSampleSize samples from
\* p_audio_samples + kStrideSampleSize
OverlapTail(p_audio_samples, kStrideSampleSize, kKeepSampleSize) ==
  SubSeq(p_audio_samples, kStrideSampleSize + 1, kStrideSampleSize + kKeepSampleSize)

\* mutant: only kStrideSampleSize samples are read from the ring
addSlice_ReadStride(w, frontend_output) ==
  LET shifted == ShiftSlices(w.p_feature_data, w.cfg)
      rd == readArray(w.p_buffer, w.kStrideSampleSize)
      audio_samples ==
        [k \in 1 .. Len(w.p_audio_samples) |->
           IF k <= rd.count THEN rd.values[k] ELSE w.p_audio_samples[k]]
      buffer == writeArray(rd.buffer,
                  OverlapTail(audio_samples, w.kStrideSampleSize, w.kKeepSampleSize))
      new_slice_data == (w.cfg.kFeatureSliceCount - 1) * w.cfg.kFeatureSliceSize
      output == generateMicroFeatures(frontend_output)
  IN [w EXCEPT
        !.p_audio_samples = audio_samples,
        !.p_buffer = buffer,
        !.p_feature_data =
           [k \in 1 .. Len(shifted) |->
              IF k > new_slice_data /\ k - new_slice_data <= Len(output)
              THEN output[k - new_slice_data] ELSE shifted[k]]]

\* TfLiteMicroSpeachWriter::addSlice
addSlice(w, frontend_output) ==
  LET shifted == ShiftSlices(w.p_feature_data, w.cfg)
      rd == readArray(w.p_buffer, w.kMaxAudioSampleSize)
      audio_samples ==
        [k \in 1 .. Len(w.p_audio_samples) |->
           IF k <= rd.count THEN rd.values[k] ELSE w.p_audio_samples[k]]
      buffer == writeArray(rd.buffer,
                  OverlapTail(audio_samples, w.kStrideSampleSize, w.kKeepSampleSize))
      new_slice_data == (w.cfg.kFeatureSliceCount - 1) * w.cfg.kFeatureSliceSize
      output == generateMicroFeatures(frontend_output)
  IN [w EXCEPT
        !.p_audio_samples = audio_samples,
        !.p_buffer = buffer,
        !.p_feature_data =
           [k \in 1 .. Len(shifted) |->
              IF k > new_slice_data /\ k - new_slice_data <= Len(output)
              THEN output[k - new_slice_data] ELSE shifted[k]]]

\* mutant: the model input buffer is left as it is
CopyToModelInput_Stale(p_tensor_buffer, feature_buffer) == p_tensor_buffer

\* processSlices, the memcpy of featureElementCount() bytes from
\* feature_buffer to parent->modelInputBuffer()
CopyToModelInput(p_tensor_buffer, feature_buffer) == feature_buffer

\* mutant: the callback is reached for new commands only
respondToCommand_OnlyNew(respond, found_command, score, is_new_command) ==
  IF is_new_command
  THEN [ calls |-> respond.calls + 1, found_command |-> found_command,
         score |-> score, is_new_command |-> is_new_command ]
  ELSE respond

\* TfLiteMicroSpeachWriter::respondToCommand: cfg.respondToCommand, or the
\* default handler, is reached with the three arguments
respondToCommand(respond, found_command, score, is_new_command) ==
  [ calls |-> respond.calls + 1, found_command |-> found_command,
    score |-> score, is_new_command |-> is_new_command ]

\* the call of processLatestResults in processSlices and what follows it
RecognizeAndRespond(s1, env) ==
  LET r == processLatestResults(s1.recognizer, env.output,
                                s1.writer.current_time, env.reads)
      s2 == [s1 EXCEPT
               !.recognizer = r.rc,
               !.ret = [ op |-> "processLatestResults",
                         current_time_ms |-> s1.writer.current_time,
                         before_label |-> s1.recognizer.previous_top_label_,
                         before_time |-> s1.recognizer.previous_top_label_time_,
                         status |-> r.status,
                         found_command |-> r.found_command,
                         score |-> r.score,
                         is_new_command |-> r.is_new_command ]]
  IN IF r.status # kTfLiteOk THEN s2
     ELSE [s2 EXCEPT !.respond =
             respondToCommand(@, r.found_command, r.score, r.is_new_command)]

\* mutant: the status of Invoke() is not tested
processSlices_IgnoreInvokeStatus(sys, feature_buffer, env) ==
  RecognizeAndRespond(
    [sys EXCEPT !.parent.p_tensor_buffer = CopyToModelInput(@, feature_buffer),
                !.parent.invocations = @ + 1,
                !.parent.invoke_status = env.invoke_status], env)

\* TfLiteMicroSpeachWriter::processSlices: env holds what the interpreter
\* does (invoke_status, output) and what reads of score memory return
processSlices(sys, feature_buffer, env) ==
  LET s1 == [sys EXCEPT
               !.parent.p_tensor_buffer = CopyToModelInput(@, feature_buffer),
               !.parent.invocations = @ + 1,
               !.parent.invoke_status = env.invoke_status]
  IN IF env.invoke_status # kTfLiteOk THEN s1
     ELSE RecognizeAndRespond(s1, env)

\* mutant: total_slice_count is not reset after a batch
write_NoReset(sys, sample, env) ==
  LET w1 == write1(sys.writer, sample)
  IN IF w1.result THEN [sys EXCEPT !.writer = w1.writer]
     ELSE
       LET w2 == [w1.writer EXCEPT
                    !.current_time = @ + w1.writer.cfg.kFeatureSliceStrideMs,
                    !.total_slice_count = @ + 1]
           w3 == addSlice(w2, env.frontend_output)
           s3 == [sys EXCEPT !.writer = w3, !.frontend_output = env.frontend_output]
       IN IF w3.total_slice_count >= w3.cfg.kSlicesToProcess
          THEN processSlices(s3, w3.p_feature_data, env)
          ELSE s3

\* TfLiteMicroSpeachWriter::write(sample)
write(sys, sample, env) ==
  LET w1 == write1(sys.writer, sample)
  IN IF w1.result THEN [sys EXCEPT !.writer = w1.writer]
     ELSE
       LET w2 == [w1.writer EXCEPT
                    !.current_time = @ + w1.writer.cfg.kFeatureSliceStrideMs,
                    !.total_slice_count = @ + 1]
           w3 == addSlice(w2, env.frontend_output)
           s3 == [sys EXCEPT !.writer = w3, !.frontend_output = env.frontend_output]
       IN IF w3.total_slice_count >= w3.cfg.kSlicesToProcess
          THEN [processSlices(s3, w3.p_feature_data, env)
                  EXCEPT !.writer.total_slice_count = 0]
          ELSE s3

(***************************************************************************)
(* TfLiteAudioStream                                                       *)
(***************************************************************************)
\* the stream after construction: cfg.writer is null and is_setup false;
\* begun, begin_result and last_write record the calls made on it
NewStream ==
  [ cfg |-> DefaultConfig, writer |-> "nullptr", is_setup |-> FALSE,
    begun |-> FALSE, begin_result |-> FALSE,
    last_write |-> [calls |-> 0, bytes |-> 0, result |-> 0, invoke_failed |-> FALSE] ]

\* what setting up the model and the interpreter in begin() comes to: all of
\* it succeeds, or the named step fails
BackendSetups ==
  { "ok", "setModel", "setupInterpreter", "AllocateTensors", "input",
    "p_tensor_buffer" }

\* TfLiteAudioStream::begin(config): sys holds the writer and what it works
\* on; populate_ok and backend are the outcomes of the collaborators
TfLiteAudioStream_begin(st, sys, config, populate_ok, backend) ==
  LET setupWriter == config.kCategoryCount > 0
      st1 == [st EXCEPT !.cfg = config,
                        !.writer = IF setupWriter THEN "writer" ELSE @]
      wb == IF setupWriter
            THEN TfLiteMicroSpeachWriter_begin(sys, config, populate_ok)
            ELSE [sys |-> sys, result |-> TRUE]
  IN IF ~wb.result THEN [stream |-> st1, sys |-> wb.sys, result |-> FALSE]
     ELSE IF backend \in {"setModel", "setupInterpreter", "AllocateTensors",
                          "p_tensor_buffer"}
             \/ (backend = "input" /\ setupWriter)
     THEN [stream |-> st1, sys |-> wb.sys, result |-> FALSE]
     ELSE [stream |-> [st1 EXCEPT !.is_setup = TRUE], sys |-> wb.sys,
           result |-> TRUE]

\* conversion of an int to int16_t
Int16(x) == ((x + 32768) % 65536) - 32768

\* what the collaborators do during one write(sample): nothing when no slice
\* is due; the frontend output when a slice is added; and, when the slice
\* completes a batch, the status of Invoke(), the output tensor and what the
\* reads of score memory return
NoEnvironment ==
  [ frontend_output |-> <<>>, invoke_status |-> kTfLiteOk,
    output |-> [dims |-> <<>>, type |-> "none", data |-> <<>>], reads |-> <<>> ]

Environments(w, rc, sample) ==
  IF write1(w, sample).result THEN { NoEnvironment }
  ELSE
    LET slices == { [NoEnvironment EXCEPT !.frontend_output = f] : f \in RawSlices }
        current_time == w.current_time + w.cfg.kFeatureSliceStrideMs
    IN IF w.total_slice_count + 1 < w.cfg.kSlicesToProcess THEN slices
       ELSE { [e EXCEPT !.invoke_status = kTfLiteError] : e \in slices }
            \cup UNION { { [e EXCEPT !.output = o, !.reads = r]
                             : e \in slices, r \in HeapViews(rc, o, current_time) }
                         : o \in Tensors }

\* the loop of TfLiteAudioStream::write over the samples: the states it
\* may end in, each with whether an Invoke() on the way failed
RECURSIVE WriteAll(_, _, _)
WriteAll(sys, samples, failed) ==
  IF samples = <<>> THEN { [sys |-> sys, failed |-> failed] }
  ELSE UNION {
         LET s1 == write(sys, Head(samples), env)
         IN WriteAll(s1, Tail(samples),
                     failed \/ ( /\ s1.parent.invocations > sys.parent.invocations
                                 /\ s1.parent.invoke_status = kTfLiteError ))
         : env \in Environments(sys.writer, sys.recognizer, Head(samples)) }

\* TfLiteAudioStream::write(audio, bytes): the states it may end in and the
\* value it returns
TfLiteAudioStream_write(st, sys, audio, bytes) ==
  IF st.writer = "nullptr"
  THEN { [sys |-> sys, result |-> 0, invoke_failed |-> FALSE] }
  ELSE LET sample_count == Int16(CDiv(bytes, 2))
       IN { [sys |-> o.sys, result |-> bytes, invoke_failed |-> o.failed]
              : o \in WriteAll(sys, SubSeq(audio, 1, sample_count), FALSE) }

(***************************************************************************)
(* TfQuantizer                                                             *)
(***************************************************************************)
\* A float is held as an integer number of halves (value 3 is 1.5): every
\* float used is a multiple of 0.5 and every scale a power of two, so the
\* float arithmetic of quantize is exact on them.
Halves == 2

\* the float arguments of quantize, in halves: value, and scale (0, 0.5, 1
\* and 2); zero_point holds whole numbers
QuantValues == { -600, -257, -256, -3, -1, 0, 1, 3, 4, 254, 255, 600 }
QuantScales == { 0, 1, 2, 4 }
QuantZeroPoints == { -128, 0, 3 }

\* an int reduced to the low 8 bits, as int8_t
Int8Wrap(t) == ((t + 128) % 256) - 128

\* an int clamped to the int8_t range
Int8Saturate(t) == IF t < -128 THEN -128 ELSE IF t > 127 THEN 127 ELSE t

\* the implicit conversion of the float n/d (d > 0) to int8_t in a return
\* statement: the fraction is discarded; when the truncated value does not
\* fit int8_t the behaviour is undefined, and builds produce the low byte
\* of the int conversion or the clamped value
FloatToInt8(n, d) ==
  LET t == CDiv(n, d)
  IN IF t >= -128 /\ t <= 127 THEN { t } ELSE { Int8Wrap(t), Int8Saturate(t) }

\* the conversion of an infinity or a NaN to int8_t: undefined, the low byte
\* of what the int conversion of the target yields
NonFiniteToInt8 == { 0, -1 }

\* TfQuantizer::quantize(value, scale, zero_point): the values it may return
quantize(value, scale, zero_point) ==
  IF scale = 0 /\ zero_point = 0 THEN FloatToInt8(value, Halves)
  ELSE IF scale = 0 THEN NonFiniteToInt8
  ELSE FloatToInt8(value + zero_point * scale, scale)

\* a dequantize that forgets the zero point
dequantize_NoZeroPoint(value, scale, zero_point) ==
  IF scale = 0 /\ zero_point = 0 THEN Halves * value ELSE value * scale

\* TfQuantizer::dequantize(value, scale, zero_point): value is an int8_t,
\* the float returned is in halves
dequantize(value, scale, zero_point) ==
  IF scale = 0 /\ zero_point = 0 THEN Halves * value
  ELSE (value - zero_point) * scale

\* TfQuantizer::clip(value, range), both in halves
clip(value, range) ==
  IF value >= 0 THEN (IF value > range THEN range ELSE value)
  ELSE (IF -value < -range THEN -range ELSE value)

\* TfQuantizer::dequantizeToNewRange(value, scale, zero_point, new_range):
\* new_range is a whole number, the float returned is in halves
dequantizeToNewRange(value, scale, zero_point, new_range) ==
  LET deq == (value - zero_point) * scale
  IN clip(deq * new_range, Halves * new_range)

\* the int8_t values and the ranges dequantizeToNewRange is called with
QuantInt8s == { -128, -3, 0, 3, 127 }
QuantRanges == { 1, 100 }

\* no call on the quantizer was made yet; value, scale and zero_point are
\* the arguments of the last quantize or dequantizeToNewRange, result what
\* it returned, dequantized what dequantize made of a quantize result
NoQuantize ==
  [ op |-> "none", value |-> 0, scale |-> 0, zero_point |-> 0, result |-> 0,
    dequantized |-> 0, new_range |-> 0 ]

(***************************************************************************)
(* MetaDataFilter                                                          *)
(***************************************************************************)
\* Bytes are numbers 0 .. 255 and a buffer is the sequence of its bytes;
\* data[i] of the code is buffer[i + 1].
Chars(str) ==
  IF str = "TAG" THEN <<84, 65, 71>> ELSE IF str = "ID3" THEN <<73, 68, 51>>
  ELSE <<>>

\* n bytes of audio (no byte of which is part of a tag marker)
Audio(n) == [k \in 1 .. n |-> 0]

\* an ID3v2 header: "ID3", version, flags and the four size bytes
ID3v2Header(tag_size) ==
  <<73, 68, 51, 3, 0, 0, 0, 0, tag_size \div 128, tag_size % 128>>

\* the buffers handed to write: audio only; an ID3v2 tag that ends inside
\* the buffer, after 8 bytes of audio; one that ends with the buffer; one
\* that goes on past the buffer; an ID3v1 tag and an extended one ("TAG+"),
\* which always go on past buffers of this size
MetaBuffers ==
  { Audio(8),
    Audio(8) \o ID3v2Header(12) \o Audio(5),
    Audio(2) \o ID3v2Header(12) \o Audio(2),
    Audio(3) \o ID3v2Header(20),
    Audio(4) \o Chars("TAG") \o Audio(5),
    Audio(4) \o Chars("TAG") \o <<43>> \o Audio(4) }

\* MetaDataFilter::find(tag, str, len, pos): the positions j of the loop,
\* 0 .. len - strlen(tag) - 1, at which the tag is found; the loop bound is
\* a size_t and wraps for len <= strlen(tag), so shorter buffers are not fed
FindPositions(tag, str, len) ==
  { j \in 0 .. len - Len(Chars(tag)) - 1 :
      SubSeq(str, j + 1, j + Len(Chars(tag))) = Chars(tag) }

\* find returns true with the first such position
find(tag, str, len) ==
  LET found == FindPositions(tag, str, len)
  IN IF len <= 0 \/ found = {} THEN [found |-> FALSE, pos |-> 0]
     ELSE [found |-> TRUE, pos |-> CHOOSE j \in found : \A k \in found : j <= k]

\* MetaDataFilter::calcSizeID3v2(chars): the synch-safe size, for size bytes
\* below 128, where the shifted bytes do not overlap
calcSizeID3v2(chars) ==
  chars[1] * 2097152 + chars[2] * 16384 + chars[3] * 128 + chars[4]

\* MetaDataFilter::findTag(data, len, pos_tag, meta_len)
findTag(data, len) ==
  LET v1 == find("TAG", data, len)
      v2 == find("ID3", data, len)
  IN IF v1.found
     THEN [ found |-> TRUE, pos |-> v1.pos,
            meta_len |-> IF data[v1.pos + 3 + 1] = 43 THEN 227 ELSE 128 ]
     ELSE IF v2.found
     THEN [ found |-> TRUE, pos |-> v2.pos,
            meta_len |-> calcSizeID3v2(SubSeq(data, v2.pos + 7, v2.pos + 10)) ]
     ELSE [found |-> FALSE, pos |-> 0, meta_len |-> 0]

\* p_decoder->write(data + offset, count): the positions of data handed to
\* the decoder, whether or not they lie inside the buffer
Positions(offset, count) == [k \in 1 .. count |-> offset + k - 1]

\* the filter after construction: no decoder, start 0; the other fields
\* record the last call of write: the length of its buffer, what findTag
\* returned, the positions forwarded to the decoder and the value returned
NewFilter ==
  [ p_decoder |-> "nullptr", start |-> 0,
    op |-> "none", len |-> 0, found |-> FALSE, pos |-> 0, meta_len |-> 0,
    forwarded |-> <<>>, result |-> 0 ]

\* MetaDataFilter::write(data, len): the filter after the call
MetaDataFilter_write(f, data, len) ==
  IF f.p_decoder = "nullptr" THEN [f EXCEPT !.op = "write", !.result = 0]
  ELSE
    LET tag == findTag(data, len)
        start_idx2 == tag.pos + tag.meta_len
        len2 == len - start_idx2
        f1 == [f EXCEPT !.op = "write", !.len = len, !.found = tag.found,
                        !.pos = tag.pos, !.meta_len = tag.meta_len,
                        !.result = len]
    IN IF tag.found
       THEN LET before == IF f.start < tag.pos
                          THEN Positions(f.start, tag.pos) ELSE <<>>
            IN IF start_idx2 < len
               THEN [f1 EXCEPT !.forwarded = before \o Positions(start_idx2, len2)]
               ELSE [f1 EXCEPT !.forwarded = before,
                               !.start = tag.meta_len - len2]
       ELSE IF f.start >= len
       THEN [f1 EXCEPT !.start = @ - len, !.forwarded = <<>>]
       ELSE [f1 EXCEPT !.forwarded = Positions(f.start, len - f.start),
                       !.start = 0]

(***************************************************************************)
(* sound_tools::int24_t (SoundTools/SoundTypes.h)                          *)
(***************************************************************************)
\* int24_t(int16_t in): the three bytes value[0], value[1], value[2]; the
\* shift of a negative value is arithmetic
int24_from_int16(in) ==
  << in % 256, (in \div 256) % 256, IF in > 0 THEN 0 ELSE 255 >>

\* operator int32_t: the bytes value[0..2] and a fourth byte 0xFF or 0 taken
\* from the top bit of value[2], read as a little-endian int32_t (with the
\* fourth byte 0xFF the value read is the 24-bit number less 2^24)
int24_to_int32(value) ==
  LET low == value[1] + 256 * value[2] + 65536 * value[3]
  IN IF value[3] >= 128 THEN low - 16777216 ELSE low

\* no conversion was made yet
NoInt24 == [op |-> "none", in |-> 0, value |-> <<0, 0, 0>>, out |-> 0]

\* a queue used on its own, before it is constructed
NewQueueUse == [op |-> "none"]

\* calls of push_back made on the queue used on its own
MaxPushes == 53

\* the scores of the results pushed on the queue used on its own
QueueScores == <<1, 2, 3>>

(***************************************************************************)
(* State                                                                   *)
(***************************************************************************)
VARIABLES
  recognizer,       \* the TfLiteMicroSpeechRecognizeCommands object
  ret,              \* the last call on it: operation, timestamp, results,
                    \* and the label and time the object held before the call
  ncalls,           \* processLatestResults calls made on it directly
  writer,           \* the TfLiteMicroSpeachWriter object
  parent,           \* the model input buffer and interpreter of its parent
  respond,          \* the calls of the respondToCommand callback
  frontend_output,  \* the last output of FrontendProcessSamples
  input,            \* the number of write(sample) calls made and the
                    \* sample of the last one
  stream,           \* the TfLiteAudioStream object and what its calls returned
  ring,             \* a RingBuffer<int16_t> used on its own
  quantizer,        \* the last call on TfQuantizer
  features,         \* the position of the loop of generateMicroFeatures
  filter,           \* a MetaDataFilter and the decoder it writes to
  queue,            \* a TfLiteResultsQueue used on its own
  sample24          \* the last conversion made with int24_t

writerVars == <<writer, parent, respond, frontend_output, input>>

moreVars == <<features, filter, queue, sample24>>

otherVars == <<stream, ring, quantizer, moreVars>>

vars ==
  <<recognizer, ret, ncalls, writer, parent, respond, frontend_output, input,
    stream, ring, quantizer, features, filter, queue, sample24>>

NoCall ==
  [ op |-> "none", current_time_ms |-> 0,
    before_label |-> SilenceLiteral, before_time |-> Int32Min,
    status |-> "none", found_command |-> NullLabel, score |-> 0,
    is_new_command |-> FALSE ]

Init ==
  /\ recognizer = NewRecognizer
  /\ ret = NoCall
  /\ ncalls = 0
  /\ writer = NewWriter
  /\ parent = NewParent
  /\ respond = NoResponse
  /\ frontend_output = <<>>
  /\ input = [count |-> 0, sample |-> 0]
  /\ stream = NewStream
  /\ ring = NewRing
  /\ quantizer = NoQuantize
  /\ features = NoFeatures
  /\ filter = NewFilter
  /\ queue = NewQueueUse
  /\ sample24 = NoInt24

\* a call of begin(cfg) on the voter; in Spec the voter is set up before it
\* is used and not set up again once begin() has succeeded
Begin ==
  /\ ~recognizer.started
  /\ \E cfg \in VoterConfigs :
    LET r == begin(recognizer, cfg)
    IN /\ recognizer' = r.rc
       /\ ret' = [NoCall EXCEPT !.op = "begin",
                                !.status = IF r.result THEN "true" ELSE "false"]
       /\ UNCHANGED <<ncalls, writerVars, otherVars>>

\* a call of processLatestResults(latest_results, current_time_ms, ...)
ProcessLatestResults ==
  /\ ncalls < MaxCalls
  /\ \E latest_results \in Tensors, current_time_ms \in Times :
       \E reads \in HeapViews(recognizer, latest_results, current_time_ms) :
         LET r == processLatestResults(recognizer, latest_results,
                                       current_time_ms, reads)
         IN /\ recognizer' = r.rc
            /\ ret' = [ op |-> "processLatestResults",
                        current_time_ms |-> current_time_ms,
                        before_label |-> recognizer.previous_top_label_,
                        before_time |-> recognizer.previous_top_label_time_,
                        status |-> r.status,
                        found_command |-> r.found_command,
                        score |-> r.score,
                        is_new_command |-> r.is_new_command ]
            /\ ncalls' = ncalls + 1
            /\ UNCHANGED <<writerVars, otherVars>>

Next == Begin \/ ProcessLatestResults

\* the voter alone, called directly
Spec == Init /\ [][Next]_vars

\* a call of begin(cfg) with one of the configurations of
\* LongSuppressionConfigs, on a voter that was not set up
BeginLongSuppression ==
  /\ ~recognizer.started
  /\ \E cfg \in LongSuppressionConfigs :
    LET r == begin(recognizer, cfg)
    IN /\ recognizer' = r.rc
       /\ ret' = [NoCall EXCEPT !.op = "begin",
                                !.status = IF r.result THEN "true" ELSE "false"]
       /\ UNCHANGED <<ncalls, writerVars, otherVars>>

NextLongSuppression == BeginLongSuppression \/ ProcessLatestResults

\* the voter called directly, with suppression_ms at its maximum
SpecLongSuppression == Init /\ [][NextLongSuppression]_vars

\* a call of begin(cfg) with a configuration of PruneConfigs, on a voter
\* that was not set up
BeginPrune ==
  /\ ~recognizer.started
  /\ \E cfg \in PruneConfigs :
    LET r == begin(recognizer, cfg)
    IN /\ recognizer' = r.rc
       /\ ret' = [NoCall EXCEPT !.op = "begin",
                                !.status = IF r.result THEN "true" ELSE "false"]
       /\ UNCHANGED <<ncalls, writerVars, otherVars>>

\* a call of processLatestResults(latest_results, current_time_ms, ...) with
\* a timestamp of PruneTimes
ProcessLatestResultsPrune ==
  /\ ncalls < MaxPruneCalls
  /\ \E latest_results \in Tensors, current_time_ms \in PruneTimes :
       \E reads \in HeapViews(recognizer, latest_results, current_time_ms) :
         LET r == processLatestResults(recognizer, latest_results,
                                       current_time_ms, reads)
         IN /\ recognizer' = r.rc
            /\ ret' = [ op |-> "processLatestResults",
                        current_time_ms |-> current_time_ms,
                        before_label |-> recognizer.previous_top_label_,
                        before_time |-> recognizer.previous_top_label_time_,
                        status |-> r.status,
                        found_command |-> r.found_command,
                        score |-> r.score,
                        is_new_command |-> r.is_new_command ]
            /\ ncalls' = ncalls + 1
            /\ UNCHANGED <<writerVars, otherVars>>

NextPrune == BeginPrune \/ ProcessLatestResultsPrune

\* the voter called directly, over more time than the averaging window
SpecPrune == Init /\ [][NextPrune]_vars

\* a call of begin(cfg) on a voter that is in use: it was set up before and
\* has processed results since
Restart ==
  /\ recognizer.started
  /\ ret.op = "processLatestResults"
  /\ \E cfg \in VoterConfigs :
    LET r == begin(recognizer, cfg)
    IN /\ recognizer' = r.rc
       /\ ret' = [NoCall EXCEPT !.op = "begin",
                                !.status = IF r.result THEN "true" ELSE "false"]
       /\ UNCHANGED <<ncalls, writerVars, otherVars>>

NextRestart == Begin \/ ProcessLatestResults \/ Restart

\* the voter called directly, and set up again while in use
SpecRestart == Init /\ [][NextRestart]_vars

\* p_buffer->write(sample) on the ring, as in write1
RingWrite ==
  /\ \E sample \in Samples :
       ring' = [ buffer |-> RingBuffer_write(ring.buffer, sample), op |-> "write",
                 result |-> RingBuffer_writeResult(ring.buffer, sample),
                 values |-> <<>> ]
  /\ UNCHANGED <<recognizer, ret, ncalls, writerVars, stream, quantizer, moreVars>>

\* p_buffer->readArray(p_audio_samples, maxCount) on the ring, as in addSlice
RingReadArray ==
  /\ \E maxCount \in 1 .. RingCapacity :
       LET r == readArray(ring.buffer, maxCount)
       IN ring' = [ buffer |-> r.buffer, op |-> "readArray",
                    result |-> r.count > 0, values |-> r.values ]
  /\ UNCHANGED <<recognizer, ret, ncalls, writerVars, stream, quantizer, moreVars>>

\* p_buffer->writeArray(samples, n) on the ring, as in addSlice
RingWriteArray ==
  /\ \E samples \in { <<300, -51>>, <<-51, -51, 300>> } :
       ring' = [ buffer |-> writeArray(ring.buffer, samples), op |-> "writeArray",
                 result |-> Len(samples) <= availableForWrite(ring.buffer),
                 values |-> <<>> ]
  /\ UNCHANGED <<recognizer, ret, ncalls, writerVars, stream, quantizer, moreVars>>

NextRing == RingWrite \/ RingReadArray \/ RingWriteArray

\* the sample ring used on its own, in any order of calls
SpecRing == Init /\ [][NextRing]_vars

\* a call of TfQuantizer::quantize(value, scale, zero_point)
Quantize ==
  /\ \E value \in QuantValues, scale \in QuantScales,
        zero_point \in QuantZeroPoints :
       \E result \in quantize(value, scale, zero_point) :
         quantizer' = [ NoQuantize EXCEPT
                          !.op = "quantize", !.value = value, !.scale = scale,
                          !.zero_point = zero_point, !.result = result ]
  /\ UNCHANGED <<recognizer, ret, ncalls, writerVars, stream, ring, moreVars>>

\* a call of TfQuantizer::dequantize on what quantize returned, with the
\* same scale and zero_point
Dequantize ==
  /\ quantizer.op = "quantize"
  /\ quantizer' = [ quantizer EXCEPT
                      !.op = "dequantize",
                      !.dequantized = dequantize(quantizer.result, quantizer.scale,
                                                 quantizer.zero_point) ]
  /\ UNCHANGED <<recognizer, ret, ncalls, writerVars, stream, ring, moreVars>>

\* a call of TfQuantizer::dequantizeToNewRange(value, scale, zero_point,
\* new_range)
DequantizeToNewRange ==
  /\ \E value \in QuantInt8s, scale \in QuantScales,
        zero_point \in QuantZeroPoints, new_range \in QuantRanges :
       quantizer' = [ NoQuantize EXCEPT
                        !.op = "dequantizeToNewRange", !.value = value,
                        !.scale = scale, !.zero_point = zero_point,
                        !.new_range = new_range,
                        !.result = dequantizeToNewRange(value, scale, zero_point,
                                                        new_range) ]
  /\ UNCHANGED <<recognizer, ret, ncalls, writerVars, stream, ring, moreVars>>

NextQuantizer == Quantize \/ Dequantize \/ DequantizeToNewRange

\* the quantizer, called with any of the arguments
SpecQuantizer == Init /\ [][NextQuantizer]_vars

\* one pass of the loop of generateMicroFeatures, over a frontend output
\* that holds every value of RawValues in ascending order
GenerateFeature ==
  /\ LET raw == IF features.op = "none" THEN 0 ELSE features.raw + 1
     IN /\ raw \in RawValues
        /\ features' = [ op |-> "rescale", raw |-> raw, sum |-> RescaleSum(raw),
                         value |-> Rescale(raw) ]
  /\ UNCHANGED <<recognizer, ret, ncalls, writerVars, stream, ring, quantizer,
                 filter, queue, sample24>>

NextFeatures == GenerateFeature

\* the rescaling of generateMicroFeatures, applied to every raw value
SpecFeatures == Init /\ [][NextFeatures]_vars

\* setDecoder(decoder) on a filter that has none
FilterSetDecoder ==
  /\ filter.p_decoder = "nullptr"
  /\ filter' = [filter EXCEPT !.p_decoder = "decoder", !.op = "setDecoder"]
  /\ UNCHANGED <<recognizer, ret, ncalls, writerVars, stream, ring, quantizer,
                 features, queue, sample24>>

\* begin() on the filter
FilterBegin ==
  /\ filter' = [filter EXCEPT !.start = 0, !.op = "begin"]
  /\ UNCHANGED <<recognizer, ret, ncalls, writerVars, stream, ring, quantizer,
                 features, queue, sample24>>

\* write(data, len) on the filter
FilterWrite ==
  /\ \E data \in MetaBuffers :
       filter' = MetaDataFilter_write(filter, data, Len(data))
  /\ UNCHANGED <<recognizer, ret, ncalls, writerVars, stream, ring, quantizer,
                 features, queue, sample24>>

NextFilter == FilterSetDecoder \/ FilterBegin \/ FilterWrite

\* the metadata filter, fed buffer by buffer
SpecFilter == Init /\ [][NextFilter]_vars

\* TfLiteResultsQueue(): the queue used on its own is constructed
QueueConstruct ==
  /\ queue.op = "none"
  /\ queue' = [op |-> "new", q |-> NewQueue, before |-> NewQueue, pushes |-> 0]
  /\ UNCHANGED <<recognizer, ret, ncalls, writerVars, stream, ring, quantizer,
                 features, filter, sample24>>

\* begin(categoryCount) on the new queue
QueueUseBegin ==
  /\ queue.op = "new"
  /\ queue' = [queue EXCEPT !.op = "begin", !.before = queue.q,
                            !.q = QueueBegin(queue.q, Len(QueueScores))]
  /\ UNCHANGED <<recognizer, ret, ncalls, writerVars, stream, ring, quantizer,
                 features, filter, sample24>>

\* push_back({categoryCount, time, scores}) with the next timestamp; the
\* temporary Result is destroyed at the end of the statement
QueuePushBack ==
  /\ queue.op # "none"
  /\ queue.pushes < MaxPushes
  /\ queue' = [queue EXCEPT
        !.op = "push_back", !.before = queue.q, !.pushes = @ + 1,
        !.q = DestroyTemporary(push_back(queue.q,
                 NewResult(Len(QueueScores), queue.pushes + 1, QueueScores)))]
  /\ UNCHANGED <<recognizer, ret, ncalls, writerVars, stream, ring, quantizer,
                 features, filter, sample24>>

\* pop_front()
QueuePopFront ==
  /\ queue.op # "none"
  /\ queue' = [queue EXCEPT !.op = "pop_front", !.before = queue.q,
                            !.q = pop_front(queue.q)]
  /\ UNCHANGED <<recognizer, ret, ncalls, writerVars, stream, ring, quantizer,
                 features, filter, sample24>>

NextQueue == QueueConstruct \/ QueueUseBegin \/ QueuePushBack \/ QueuePopFront

\* the results queue on its own, under any sequence of pushes and pops
SpecQueue == Init /\ [][NextQueue]_vars

\* an int16_t is converted to int24_t and the int24_t back to int32_t
Int24FromInt16 ==
  /\ sample24.op = "none"
  /\ \E in \in -32768 .. 32767 :
       sample24' = [ op |-> "int16", in |-> in,
                     value |-> int24_from_int16(in),
                     out |-> int24_to_int32(int24_from_int16(in)) ]
  /\ UNCHANGED <<recognizer, ret, ncalls, writerVars, stream, ring, quantizer,
                 features, filter, queue>>

\* conversions to int24_t and back
SpecInt24 == Init /\ [][Int24FromInt16]_vars

\* the objects the writer works on
System ==
  [ writer |-> writer, recognizer |-> recognizer, parent |-> parent,
    respond |-> respond, ret |-> ret, frontend_output |-> frontend_output ]

SetSystem(sys) ==
  /\ writer' = sys.writer
  /\ recognizer' = sys.recognizer
  /\ parent' = sys.parent
  /\ respond' = sys.respond
  /\ ret' = sys.ret
  /\ frontend_output' = sys.frontend_output

\* a call of begin(parent) on a writer that was never set up
WriterBegin ==
  /\ writer.parent = "nullptr"
  /\ \E cfg \in WriterConfigs, populate_ok \in BOOLEAN :
       LET r == TfLiteMicroSpeachWriter_begin(System, cfg, populate_ok)
       IN SetSystem([r.sys EXCEPT !.ret =
            [NoCall EXCEPT !.op = "begin",
                           !.status = IF r.result THEN "true" ELSE "false"]])
  /\ UNCHANGED <<ncalls, input, otherVars>>

\* a call of write(sample) on a writer whose begin() has returned true
Write ==
  /\ writer.p_buffer.allocated
  /\ input.count < MaxWrites
  /\ \E sample \in Samples :
       /\ \E env \in Environments(writer, recognizer, sample) :
            SetSystem(write(System, sample, env))
       /\ input' = [count |-> input.count + 1, sample |-> sample]
  /\ UNCHANGED <<ncalls, otherVars>>

NextWriter == WriterBegin \/ Write

\* a call of begin(parent) with a configuration of CadenceConfigs, on a
\* writer that was never set up
WriterBeginCadence ==
  /\ writer.parent = "nullptr"
  /\ \E cfg \in CadenceConfigs, populate_ok \in BOOLEAN :
       LET r == TfLiteMicroSpeachWriter_begin(System, cfg, populate_ok)
       IN SetSystem([r.sys EXCEPT !.ret =
            [NoCall EXCEPT !.op = "begin",
                           !.status = IF r.result THEN "true" ELSE "false"]])
  /\ UNCHANGED <<ncalls, input, otherVars>>

NextCadence == WriterBeginCadence \/ Write

\* the writer, fed sample by sample, with a stride longer than a slice
SpecCadence == Init /\ [][NextCadence]_vars

\* a call of begin(parent) on a writer, whether or not it was begun before
WriterBeginRestart ==
  /\ \E cfg \in RestartWriterConfigs, populate_ok \in BOOLEAN :
       LET r == TfLiteMicroSpeachWriter_begin(System, cfg, populate_ok)
       IN SetSystem([r.sys EXCEPT !.ret =
            [NoCall EXCEPT !.op = "begin",
                           !.status = IF r.result THEN "true" ELSE "false"]])
  /\ UNCHANGED <<ncalls, input, otherVars>>

NextWriterRestart == WriterBeginRestart \/ Write

\* the writer and its voter, with begin() called again at any time
SpecWriterRestart == Init /\ [][NextWriterRestart]_vars

\* begin(parent) on a writer with the default configuration and three
\* categories
DefaultBegin ==
  /\ writer.parent = "nullptr"
  /\ LET r == TfLiteMicroSpeachWriter_begin(System, setCategories(DefaultConfig, 3), TRUE)
     IN SetSystem([r.sys EXCEPT !.ret =
          [NoCall EXCEPT !.op = "begin",
                         !.status = IF r.result THEN "true" ELSE "false"]])
  /\ UNCHANGED <<ncalls, input, otherVars>>

\* the write(sample) call that completes a batch of kSlicesToProcess slices
\* in that pipeline, reduced to what it does to the clock and to
\* processSlices: current_time has advanced by kFeatureSliceStrideMs with
\* each slice of the batch, the interpreter is invoked (it may fail in the
\* first batches) and its output, scores that favour category 1, goes to
\* the voter
DefaultBatch ==
  /\ writer.p_buffer.allocated
  /\ parent.invocations < MaxBatches
  /\ LET current_time == writer.current_time
                           + writer.cfg.kSlicesToProcess * writer.cfg.kFeatureSliceStrideMs
         output == [dims |-> <<1, 3>>, type |-> "kTfLiteInt8",
                    data |-> <<-128, -8, -128>>]
         s1 == [System EXCEPT !.writer.current_time = current_time]
     IN \E invoke_status \in IF parent.invocations < FlakyBatches
                              THEN {kTfLiteOk, kTfLiteError} ELSE {kTfLiteOk} :
          \E reads \in HeapViews(recognizer, output, current_time) :
            SetSystem(processSlices(s1, writer.p_feature_data,
                        [NoEnvironment EXCEPT !.invoke_status = invoke_status,
                                              !.output = output,
                                              !.reads = reads]))
  /\ UNCHANGED <<ncalls, input, otherVars>>

\* the pipeline with the default configuration, batch by batch
SpecDefault == Init /\ [][DefaultBegin \/ DefaultBatch]_vars

\* the writer, fed sample by sample, with the voter behind it
SpecWriter == Init /\ [][NextWriter]_vars

\* a call of write(sample) while the interpreter is out of order: Invoke()
\* returns an error at the end of each batch and the voter is not called.
\* The caller never stops writing; the writer is followed until it has
\* added MaxSlices slices, and the calls are counted up to MaxWrites
WriteBackendDown ==
  /\ writer.p_buffer.allocated
  /\ writer.current_time < MaxSlices * writer.cfg.kFeatureSliceStrideMs
  /\ \E sample \in Samples, f \in RawSlices :
       /\ SetSystem(write(System, sample,
                          [NoEnvironment EXCEPT !.frontend_output = f,
                                                !.invoke_status = kTfLiteError]))
       /\ input' = [count |-> Min(input.count + 1, MaxWrites), sample |-> sample]
  /\ UNCHANGED <<ncalls, otherVars>>

\* the writer with a caller that keeps writing samples
SpecWriterLive ==
  Init /\ [][WriterBegin \/ WriteBackendDown]_vars /\ WF_vars(WriteBackendDown)

\* the sample buffers handed to the stream
AudioBuffers == { <<300>>, <<-51, 300>> }

\* a call of begin(config) on a stream that was never set up
StreamBegin ==
  /\ ~stream.begun
  /\ \E config \in WriterConfigs, populate_ok \in BOOLEAN, backend \in BackendSetups :
       LET r == TfLiteAudioStream_begin(stream, System, config, populate_ok, backend)
       IN /\ stream' = [r.stream EXCEPT !.begun = TRUE, !.begin_result = r.result]
          /\ SetSystem([r.sys EXCEPT !.ret =
               [NoCall EXCEPT !.op = "begin",
                              !.status = IF r.result THEN "true" ELSE "false"]])
  /\ UNCHANGED <<ncalls, input, ring, quantizer, moreVars>>

\* a call of write(audio, bytes) on a stream whose begin() has returned true
StreamWrite ==
  /\ stream.begun /\ stream.begin_result
  /\ stream.last_write.calls < MaxWrites
  /\ \E audio \in AudioBuffers :
       /\ input.count + Len(audio) <= MaxWrites
       /\ \E o \in TfLiteAudioStream_write(stream, System, audio, 2 * Len(audio)) :
            /\ SetSystem(o.sys)
            /\ stream' = [stream EXCEPT !.last_write =
                            [ calls |-> @.calls + 1, bytes |-> 2 * Len(audio),
                              result |-> o.result,
                              invoke_failed |-> o.invoke_failed ]]
            /\ input' = IF stream.writer = "nullptr" THEN input
                        ELSE [ count |-> input.count + Len(audio),
                               sample |-> audio[Len(audio)] ]
  /\ UNCHANGED <<ncalls, ring, quantizer, moreVars>>

NextStream == StreamBegin \/ StreamWrite

\* a call of write(audio, bytes) with a buffer of 65536 bytes, 32768
\* samples of value 300, as the first buffer the stream is given
StreamWriteLarge ==
  /\ stream.begun /\ stream.begin_result
  /\ stream.last_write.calls = 0
  /\ LET audio == [k \in 1 .. 32768 |-> 300]
         bytes == 2 * Len(audio)
     IN \E o \in TfLiteAudioStream_write(stream, System, audio, bytes) :
          /\ SetSystem(o.sys)
          /\ stream' = [stream EXCEPT !.last_write =
                          [ calls |-> @.calls + 1, bytes |-> bytes,
                            result |-> o.result,
                            invoke_failed |-> o.invoke_failed ]]
          /\ input' = IF stream.writer = "nullptr" THEN input
                      ELSE [ count |-> input.count + Len(audio),
                             sample |-> audio[Len(audio)] ]
  /\ UNCHANGED <<ncalls, ring, quantizer, moreVars>>

\* the stream, fed with small buffers and with buffers of 65536 bytes
SpecStreamLarge == Init /\ [][StreamBegin \/ StreamWrite \/ StreamWriteLarge]_vars

\* the stream, fed buffer by buffer, with the writer and the voter behind it
SpecStream == Init /\ [][NextStream]_vars

(***************************************************************************)
(* Claims about the voter (specification Spec)                             *)
(***************************************************************************)
\* the last step was a processLatestResults call that returned kTfLiteOk
AcceptedCall == ret.op = "processLatestResults" /\ ret.status = kTfLiteOk

\* the history after the call, its timestamps front first
History == QueueTimes(recognizer.previous_results_)

\* the evidence of the last accepted call is sufficient: the pruned history
\* holds minimum_count entries and spans a quarter of the window
SufficientEvidence ==
  /\ Len(History) >= recognizer.cfg.minimum_count
  /\ ret.current_time_ms - History[1] >= recognizer.cfg.average_window_duration_ms \div 4

\* the last accepted call found a top category above the threshold
TopAboveThreshold ==
  AcceptedCall /\ ret.score > recognizer.cfg.detection_threshold

\* the distance in time of two timestamps
Apart(t1, t2) == IF t1 >= t2 THEN t1 - t2 ELSE t2 - t1

\* C1 as stated: for every category, when it is the top category above the
\* threshold on two accepted calls at most suppression_ms apart, with no
\* other label recognized in between (here: two calls in a row),
\* is_new_command is true on the first call and false on the second.
C1_DebounceEveryCategory ==
  [][ ( /\ ncalls' = ncalls + 1
        /\ TopAboveThreshold
        /\ TopAboveThreshold'
        /\ ret'.found_command = ret.found_command
        /\ Apart(ret'.current_time_ms, ret.current_time_ms)
             <= recognizer'.cfg.suppression_ms )
      => (ret.is_new_command /\ ~ret'.is_new_command) ]_vars

\* C1 as amended: for every category other than the background category 0,
\* when it was reported as a new command (it is the label the voter holds,
\* no other label having been recognized since) and it is again the top
\* category above the threshold on an accepted call at most suppression_ms
\* after that report, is_new_command is false on the later call.
C1_DebounceRepeat ==
  ( /\ TopAboveThreshold
    /\ ret.found_command # 0
    /\ ret.found_command = ret.before_label
    /\ ret.before_time # Int32Min
    /\ Apart(ret.current_time_ms, ret.before_time) <= recognizer.cfg.suppression_ms )
  => ~ret.is_new_command

\* a repeat of a recognized non-background label within the suppression
\* interval, reported as not new
C1_Witness ==
  /\ TopAboveThreshold
  /\ ret.found_command # 0
  /\ ret.found_command = ret.before_label
  /\ ret.before_time # Int32Min
  /\ ret.current_time_ms > ret.before_time
  /\ ret.current_time_ms - ret.before_time <= recognizer.cfg.suppression_ms
  /\ ~ret.is_new_command

\* time_since_last_top of the decision rule, from the label and the time the
\* voter held before the call
SinceLastTop ==
  IF ret.before_label = 0 \/ ret.before_time = Int32Min THEN Int32Max
  ELSE ret.current_time_ms - ret.before_time

\* C2: on every accepted call with sufficient evidence, is_new_command is
\* true exactly when the score of the top category is strictly above
\* detection_threshold and the top category differs from the previous label
\* or time_since_last_top exceeds suppression_ms; when it is true the voter
\* takes the top category and the current time, when it is false the voter
\* keeps its label and time.
C2_DecisionRule ==
  (AcceptedCall /\ SufficientEvidence) =>
    /\ ret.is_new_command <=>
         ( /\ ret.score > recognizer.cfg.detection_threshold
           /\ \/ ret.found_command # ret.before_label
              \/ SinceLastTop > recognizer.cfg.suppression_ms )
    /\ ret.is_new_command =>
         /\ recognizer.previous_top_label_ = ret.found_command
         /\ recognizer.previous_top_label_time_ = ret.current_time_ms
    /\ ~ret.is_new_command =>
         /\ recognizer.previous_top_label_ = ret.before_label
         /\ recognizer.previous_top_label_time_ = ret.before_time

\* the same non-background label is reported as new again once the
\* suppression interval has elapsed
C2_Witness ==
  /\ AcceptedCall /\ SufficientEvidence
  /\ ret.is_new_command
  /\ ret.found_command = ret.before_label
  /\ ret.found_command # 0
  /\ SinceLastTop > recognizer.cfg.suppression_ms
  /\ SinceLastTop < Int32Max

\* C3: on an accepted call after which the pruned history holds fewer than
\* minimum_count entries or spans less than average_window_duration_ms / 4,
\* the call returns the previous label with score 0 and is_new_command
\* false, and the voter keeps its label and time.
C3_InsufficientEvidence ==
  (AcceptedCall /\ ~SufficientEvidence) =>
    /\ ret.found_command = ret.before_label
    /\ ret.score = 0
    /\ ~ret.is_new_command
    /\ recognizer.previous_top_label_ = ret.before_label
    /\ recognizer.previous_top_label_time_ = ret.before_time

\* the example of C3: window 1000 ms, minimum_count 3, the second of two
\* results 10 ms apart
C3_Witness ==
  /\ AcceptedCall
  /\ recognizer.cfg.average_window_duration_ms = 1000
  /\ recognizer.cfg.minimum_count = 3
  /\ History = <<0, 10>>
  /\ ret.current_time_ms = 10
  /\ ret.score = 0 /\ ~ret.is_new_command

\* the voter was started with the configuration of C4, n results were
\* handed to it 200 ms apart, all accepted, each with biased score 120 for
\* category k and 0 for the others
ScenarioB(n, k) ==
  LET q == recognizer.previous_results_
  IN /\ recognizer.started
     /\ recognizer.cfg.average_window_duration_ms = 1000
     /\ recognizer.cfg.minimum_count = 3
     /\ recognizer.cfg.detection_threshold = 100
     /\ ncalls = n /\ size(q) = n /\ AcceptedCall
     /\ \A o \in 0 .. n - 1 :
          /\ from_front(q, o).time_ = History[1] + 200 * o
          /\ from_front(q, o).scores.data
               = [i \in 1 .. 3 |-> IF i = k + 1 THEN -8 ELSE -128]

\* C4: in that scenario is_new_command is false on the 1st and 2nd result
\* and true, with label k, on the 3rd.
C4_FirstDetection ==
  \A k \in {1, 2} :
    /\ (ScenarioB(1, k) \/ ScenarioB(2, k)) => ~ret.is_new_command
    /\ ScenarioB(3, k) => (ret.is_new_command /\ ret.found_command = k)

\* C5: every call whose current_time_ms is less than the timestamp of the
\* last enqueued entry of the history is rejected with an error.
C5_OutOfOrderRejected ==
  [][ ( /\ ncalls' = ncalls + 1
        /\ ~empty(recognizer.previous_results_)
        /\ ret'.current_time_ms < back(recognizer.previous_results_).time_ )
      => ret'.status = kTfLiteError ]_vars

\* C6: the timestamps stored in the history are non-decreasing from front
\* to back.
C6_MonotonicHistory ==
  \A i, j \in 1 .. Len(History) : i <= j => History[i] <= History[j]

\* C7: whenever processLatestResults returns an error, the history, the
\* previous label and its time are what they were before the call.
C7_NoMutationOnError ==
  [][ (ncalls' = ncalls + 1 /\ ret'.status = kTfLiteError)
      => /\ recognizer'.previous_results_ = recognizer.previous_results_
         /\ recognizer'.previous_top_label_ = recognizer.previous_top_label_
         /\ recognizer'.previous_top_label_time_ = recognizer.previous_top_label_time_
    ]_vars

\* a call rejected for its timestamp, with results in the history
C7_Witness ==
  /\ ret.op = "processLatestResults" /\ ret.status = kTfLiteError
  /\ recognizer.started
  /\ ~empty(recognizer.previous_results_)
  /\ ret.current_time_ms < front(recognizer.previous_results_).time_

(***************************************************************************)
(* Claims about the writer (specification SpecWriter)                      *)
(***************************************************************************)
\* the step is a write(sample) call
WriteStep == input'.count = input.count + 1

\* the step is a write(sample) call that added a slice
SliceStep == WriteStep /\ writer'.current_time # writer.current_time

\* C8: with channels == 2, each consecutive input pair (a, b) appends
\* exactly one mono sample (a/2)+(b/2), integer division, to the sample
\* ring, in input order: the first sample of a pair leaves the ring as it
\* is, the second appends the mono sample (stated for the writes before the
\* ring has taken a full window).
C8_Downmix ==
  [][ ( /\ WriteStep
        /\ writer.cfg.channels = 2
        /\ input'.count < 2 * audioSampleSize(writer.cfg) )
      => writer'.p_buffer.data =
           IF input'.count % 2 = 0
           THEN Append(writer.p_buffer.data,
                       CDiv(input.sample, 2) + CDiv(input'.sample, 2))
           ELSE writer.p_buffer.data ]_vars

\* C9: after every addSlice, slices 0..sliceCount-2 of the feature matrix
\* equal slices 1..sliceCount-1 of the matrix before the call, the last
\* slice holds the newly generated values, and the matrix length stays
\* sliceCount*sliceSize.
C9_SliceShift ==
  [][ SliceStep =>
        LET sliceSize == writer.cfg.kFeatureSliceSize
            sliceCount == writer.cfg.kFeatureSliceCount
            old == writer.p_feature_data
            new == writer'.p_feature_data
        IN /\ Len(old) = sliceCount * sliceSize
           /\ Len(new) = sliceCount * sliceSize
           /\ \A k \in 1 .. (sliceCount - 1) * sliceSize : new[k] = old[k + sliceSize]
           /\ SubSeq(new, (sliceCount - 1) * sliceSize + 1, sliceCount * sliceSize)
                = generateMicroFeatures(frontend_output') ]_vars

\* three slices were added: the matrix holds the values generated for them,
\* oldest first
C9_Witness ==
  /\ writer.current_time = 3 * writer.cfg.kFeatureSliceStrideMs
  /\ writer.cfg.kFeatureSliceCount = 3
  /\ writer.p_feature_data = <<-128, 127, -90, 26, -128, 127>>

\* C10: after addSlice consumes a full window s[0..A-1] from the ring, the
\* ring holds exactly A-S samples equal to s[S..A-1] in FIFO order, and the
\* window shares its first A-S samples with the window of the slice before.
C10_OverlapTail ==
  [][ LET A == audioSampleSize(writer.cfg)
          S == strideSampleSize(writer.cfg)
          s == Append(writer.p_buffer.data, input'.sample)
      IN ( /\ SliceStep
           /\ writer.cfg.channels = 1
           /\ Len(s) = A )
         => /\ Len(writer'.p_buffer.data) = A - S
            /\ writer'.p_buffer.data = SubSeq(s, S + 1, A)
            /\ writer.current_time > 0
                 => SubSeq(s, 1, A - S) = SubSeq(writer.p_audio_samples, S + 1, A)
    ]_vars

\* the second slice was added: the ring holds the last sample of its window,
\* which differs from the sample before it
C10_Witness ==
  /\ writer.cfg.channels = 1
  /\ writer.current_time = 2 * writer.cfg.kFeatureSliceStrideMs
  /\ input.count = 5
  /\ writer.kKeepSampleSize = 1
  /\ writer.p_buffer.data = <<writer.p_audio_samples[3]>>
  /\ writer.p_audio_samples[2] # writer.p_audio_samples[3]

\* the slices added so far: current_time advances by the stride with each
SlicesAdded == writer.current_time \div writer.cfg.kFeatureSliceStrideMs

\* the step invoked the inference backend
BatchStep == parent'.invocations = parent.invocations + 1

\* C11: for kSlicesToProcess >= 1 the backend is invoked exactly once for
\* every kSlicesToProcess slices added, with the slice that completes the
\* batch, and the slice counter is back to 0 afterwards: after every write
\* the number of invocations is the number of complete batches, the counter
\* is the number of slices of the incomplete one, and
\* 0 <= total_slice_count < kSlicesToProcess.
C11_Batching ==
  writer.cfg.kSlicesToProcess >= 1 =>
    /\ parent.invocations = SlicesAdded \div writer.cfg.kSlicesToProcess
    /\ writer.total_slice_count = SlicesAdded % writer.cfg.kSlicesToProcess
    /\ 0 <= writer.total_slice_count
    /\ writer.total_slice_count < writer.cfg.kSlicesToProcess

\* batches of 2: three slices added, one invocation, one slice pending
C11_Witness ==
  /\ writer.cfg.kSlicesToProcess = 2
  /\ SlicesAdded = 3
  /\ parent.invocations = 1
  /\ writer.total_slice_count = 1

\* C12: the callback is invoked exactly once for every batch in which the
\* backend invocation and the voter call both succeed, with the label,
\* score and is_new_command returned by that voter call, and at no other
\* time.
C12_DecisionCallback ==
  [][ IF /\ BatchStep
         /\ parent'.invoke_status = kTfLiteOk
         /\ ret'.op = "processLatestResults"
         /\ ret'.current_time_ms = writer'.current_time
         /\ ret'.status = kTfLiteOk
      THEN respond' = [ calls |-> respond.calls + 1,
                        found_command |-> ret'.found_command,
                        score |-> ret'.score,
                        is_new_command |-> ret'.is_new_command ]
      ELSE respond' = respond ]_vars

\* the callback has been reached twice, the second time with a new command
C12_Witness ==
  /\ respond.calls = 2
  /\ respond.is_new_command
  /\ respond.score > writer.cfg.detection_threshold
  /\ respond.found_command = ret.found_command

C14_BackendFailure ==
  [][ (BatchStep /\ parent'.invoke_status = kTfLiteError)
      => /\ recognizer' = recognizer
         /\ ret' = ret
         /\ respond' = respond
         /\ writer'.total_slice_count = 0 ]_vars

\* a failed invocation after a cycle that succeeded: its result is kept
C14_Witness ==
  /\ parent.invoke_status = kTfLiteError
  /\ parent.invocations = 2
  /\ size(recognizer.previous_results_) = 1
  /\ respond.calls = 1

C15_FailurePropagated ==
  (stream.last_write.calls > 0 /\ stream.last_write.invoke_failed)
    => stream.last_write.result # stream.last_write.bytes

\* the stream was set up without categories
NotConfigured ==
  stream.begun /\ (stream.cfg.kCategoryCount = 0 \/ ~stream.cfg.labels)

\* C16: when begin(config) is called with no categories configured, it
\* returns false, is_setup stays false and no later write hands a sample
\* to the pipeline
C16_NotConfigured ==
  NotConfigured
    => ~stream.begin_result /\ ~stream.is_setup /\ input.count = 0

(***************************************************************************)
(* Claims about setting the voter up again (specification SpecRestart)     *)
(***************************************************************************)
\* C17: after every call of the voter's begin(), whatever calls preceded
\* it, the history is empty and the voter holds no recognized label: the
\* previous top label is "silence" and its time is the minimum ("never")
C17_ResetOnBegin ==
  ret.op = "begin"
    => /\ empty(recognizer.previous_results_)
       /\ recognizer.previous_top_label_ = SilenceLiteral
       /\ recognizer.previous_top_label_time_ = Int32Min

(***************************************************************************)
(* Claims about the sample ring (specification SpecRing)                   *)
(***************************************************************************)
\* C19: a write to the ring when availableForWrite() is 0 is rejected
\* (Overflow) and leaves the contents of the ring as they were; the ring is
\* in that state exactly when it holds as many samples as its capacity
C19_RingOverflow ==
  [][ /\ availableForWrite(ring.buffer) = 0
        <=> Len(ring.buffer.data) = RingCapacity
      /\ (ring'.op = "write" /\ availableForWrite(ring.buffer) = 0)
           => (~ring'.result /\ ring'.buffer = ring.buffer) ]_vars

\* a write was rejected by a full ring
C19_Witness ==
  /\ ring.op = "write" /\ ~ring.result
  /\ Len(ring.buffer.data) = RingCapacity
  /\ availableForWrite(ring.buffer) = 0

(***************************************************************************)
(* Claims about the quantizer (specification SpecQuantizer)                *)
(***************************************************************************)
\* round(n/d) for d > 0: to the nearest whole number, halves away from zero
Round(n, d) ==
  IF n >= 0 THEN (2 * n + d) \div (2 * d) ELSE -((2 * (-n) + d) \div (2 * d))

\* the last call of quantize returned what the claim says: value itself
\* when scale and zero_point are 0, else round(value/scale) + zero_point
\* clamped to [-128, 127] (for scale 0 the quotient is infinite and the
\* clamped value is the bound on the side of value)
ReturnsClaimed ==
  IF quantizer.scale = 0 /\ quantizer.zero_point = 0
  THEN Halves * quantizer.result = quantizer.value
  ELSE IF quantizer.scale = 0
  THEN quantizer.value = 0
       \/ quantizer.result = (IF quantizer.value > 0 THEN 127 ELSE -128)
  ELSE quantizer.result =
         Int8Saturate(Round(quantizer.value, quantizer.scale) + quantizer.zero_point)

\* C20: quantize(v, scale, zero_point) returns v unchanged when scale and
\* zero_point are 0, and otherwise round(v/scale) + zero_point saturated to
\* [-128, 127], for every v
C20_Quantize == quantizer.op = "quantize" => ReturnsClaimed

\* |x|
Abs(x) == IF x >= 0 THEN x ELSE -x

\* the value quantize was called with has a quantized value in the int8
\* range: value/scale + zero_point, its fraction discarded, is in -128..127
QuantizedInRange ==
  /\ quantizer.scale > 0
  /\ LET t == CDiv(quantizer.value + quantizer.zero_point * quantizer.scale,
                   quantizer.scale)
     IN t >= -128 /\ t <= 127

\* C21: for scale > 0 and every x whose quantized value lies in the int8
\* range, dequantize(quantize(x, scale, zp), scale, zp) differs from x by at
\* most scale
C21_RoundTrip ==
  (quantizer.op = "dequantize" /\ QuantizedInRange)
    => Abs(quantizer.dequantized - quantizer.value) <= quantizer.scale

\* a value that is not a multiple of scale went through the round trip, with
\* a zero point
C21_Witness ==
  /\ quantizer.op = "dequantize" /\ QuantizedInRange
  /\ quantizer.zero_point # 0
  /\ quantizer.dequantized # quantizer.value

\* C22: for new_range > 0, dequantizeToNewRange returns a value in
\* [-new_range, +new_range]
C22_ClipRange ==
  (quantizer.op = "dequantizeToNewRange" /\ quantizer.new_range > 0)
    => /\ quantizer.result <= Halves * quantizer.new_range
       /\ quantizer.result >= -(Halves * quantizer.new_range)

(***************************************************************************)
(* Claims about the feature rescaling (specification SpecFeatures)         *)
(***************************************************************************)
\* clip(x, lo, hi)
Clip(x, lo, hi) == IF x < lo THEN lo ELSE IF x > hi THEN hi ELSE x

\* C23: for every raw frontend value (unsigned 16 bit) the stored feature is
\* clip(((raw*256) + 333) / 666 - 128, -128, 127); the sum fits 32 bit; the
\* feature lies in [-128, 127], does not decrease when raw grows, and is
\* -128 for raw 0
C23_FeatureRescaling ==
  [][ features'.op = "rescale" =>
        /\ features'.value
             = Clip((((features'.raw * 256) + 333) \div 666) - 128, -128, 127)
        /\ features'.sum >= 0 /\ features'.sum <= Int32Max
        /\ features'.value >= -128 /\ features'.value <= 127
        /\ features.op = "rescale" => features'.value >= features.value
        /\ features'.raw = 0 => features'.value = -128 ]_vars

\* the loop has reached the first raw value whose rescaled value, 128, is
\* cut down by the upper clip
C23_Witness ==
  /\ features.op = "rescale" /\ features.raw = 665 /\ features.value = 127
  /\ (features.sum \div value_div) - 128 = 128

(***************************************************************************)
(* Claims about the metadata filter (specification SpecFilter)             *)
(***************************************************************************)
\* the last call was a write, with a decoder set, in which findTag found a
\* tag
TagFound == filter.op = "write" /\ filter.p_decoder = "decoder" /\ filter.found

\* C24: in a write in which a tag is found at pos with length meta_len and
\* pos + meta_len < len, whatever the pending skip counter was, every byte
\* forwarded to the decoder is a byte of data outside [pos, pos + meta_len),
\* and write returns len
C24_TagInsideBuffer ==
  (TagFound /\ filter.pos + filter.meta_len < filter.len)
    => /\ \A k \in 1 .. Len(filter.forwarded) :
            /\ filter.forwarded[k] >= 0 /\ filter.forwarded[k] < filter.len
            /\ \/ filter.forwarded[k] < filter.pos
               \/ filter.forwarded[k] >= filter.pos + filter.meta_len
       /\ filter.result = filter.len

\* C25: a write in which a tag is found that extends to or past the end of
\* the buffer sets the skip counter to pos + meta_len - len; a following
\* write without a tag withholds the first min(start, len) bytes, takes them
\* off the counter and forwards the rest, so that the counter reaches 0
\* after exactly that many bytes were withheld
C25_TagSpanningBuffers ==
  [][ (filter'.op = "write" /\ filter.p_decoder = "decoder")
        => /\ (filter'.found /\ filter'.pos + filter'.meta_len >= filter'.len)
                => filter'.start = filter'.pos + filter'.meta_len - filter'.len
           /\ ~filter'.found
                => LET withheld == Min(filter.start, filter'.len)
                   IN /\ filter'.start = filter.start - withheld
                      /\ filter'.forwarded
                           = Positions(withheld, filter'.len - withheld) ]_vars

(***************************************************************************)
(* Claims about the voter (specifications Spec and SpecLongSuppression)    *)
(***************************************************************************)
\* C26: when no command was recognized before the call, or the label
\* recognized last is category 0, a top category whose mean is above
\* detection_threshold is reported with is_new_command = true, whatever
\* the time since the last recognition and whatever suppression_ms is
C26_FreePass ==
  ( /\ TopAboveThreshold
    /\ ret.before_time = Int32Min \/ ret.before_label = 0 )
    => ret.is_new_command

\* C27: after the prune step of every accepted processLatestResults call,
\* every entry left in the history has a timestamp of at least
\* current_time_ms - average_window_duration_ms, and every entry the step
\* removed had a timestamp strictly below that limit
C27_Pruning ==
  [][ (ncalls' = ncalls + 1 /\ AcceptedCall')
        => LET old == Append(History, ret'.current_time_ms)
               new == History'
               removed == Len(old) - Len(new)
               time_limit == ret'.current_time_ms
                               - recognizer'.cfg.average_window_duration_ms
           IN /\ removed >= 0
              /\ new = SubSeq(old, removed + 1, Len(old))
              /\ \A i \in 1 .. removed : old[i] < time_limit
              /\ \A i \in 1 .. Len(new) : new[i] >= time_limit ]_vars

\* the sum, over the n entries at the front of the history, of the score
\* that was stored for category k, plus 128
RECURSIVE StoredSum(_, _, _)
StoredSum(q, k, n) ==
  IF n = 0 THEN 0
  ELSE StoredSum(q, k, n - 1) + from_front(q, n - 1).scores.data[k + 1] + 128

\* the mean the claim speaks of: over the entries of the history after the
\* call, of the scores the calls stored for category k
StoredMean(k) ==
  StoredSum(recognizer.previous_results_, k, size(recognizer.previous_results_))
    \div size(recognizer.previous_results_)

\* C28: on an accepted call with sufficient evidence the label returned is
\* the smallest category index with the largest mean of score + 128 over
\* the entries of the history, and the score returned is that mean, which
\* lies in 0 .. 255, whether or not is_new_command is true
C28_AverageAndArgmax ==
  (AcceptedCall /\ SufficientEvidence) =>
    LET categories == 0 .. recognizer.kCategoryCount - 1
    IN /\ ret.found_command \in categories
       /\ \A k \in categories : StoredMean(k) <= StoredMean(ret.found_command)
       /\ \A k \in categories :
            k < ret.found_command => StoredMean(k) < StoredMean(ret.found_command)
       /\ ret.score = StoredMean(ret.found_command)
       /\ ret.score >= 0 /\ ret.score <= 255

(***************************************************************************)
(* Claims about the slice cadence (specifications SpecWriter, SpecCadence) *)
(***************************************************************************)
\* the slices the claim expects after the samples written so far: the first
\* when audioSampleSize samples were written, one more after every further
\* strideSampleSize samples
ExpectedSlices ==
  IF input.count < writer.kMaxAudioSampleSize THEN 0
  ELSE 1 + ((input.count - writer.kMaxAudioSampleSize) \div writer.kStrideSampleSize)

\* C29: with one channel and strideSampleSize > 0, after any sequence of
\* writes following begin() a slice was added exactly when the number of
\* samples written reached audioSampleSize and after every further
\* strideSampleSize samples, and the k-th slice has set the timestamp to
\* k * kFeatureSliceStrideMs
C29_SliceCadence ==
  ( /\ writer.p_buffer.allocated
    /\ writer.cfg.channels = 1
    /\ writer.kStrideSampleSize > 0 )
    => writer.current_time = ExpectedSlices * writer.cfg.kFeatureSliceStrideMs

(***************************************************************************)
(* Claims about the results queue (specification SpecQueue)                *)
(***************************************************************************)
\* C30: in every reachable state 0 <= size <= kMaxResults and
\* 0 <= front_index < kMaxResults; push_back on a full queue and pop_front
\* on an empty queue leave the contents, the size and the front index of
\* the queue unchanged
C30_BoundedHistory ==
  queue.op # "none" =>
    /\ 0 <= queue.q.size_ /\ queue.q.size_ <= kMaxResults
    /\ 0 <= queue.q.front_index_ /\ queue.q.front_index_ < kMaxResults
    /\ (queue.op = "push_back" /\ queue.before.size_ >= kMaxResults)
          => queue.q = queue.before
    /\ (queue.op = "pop_front" /\ queue.before.size_ <= 0)
          => queue.q = queue.before

\* a push was refused by a full queue whose front had already wrapped
\* past slot 0
C30_Witness ==
  /\ queue.op = "push_back"
  /\ queue.before.size_ = kMaxResults
  /\ queue.before.front_index_ > 0
  /\ queue.q = queue.before

\* a pop was refused by an empty queue that had held results before
C30_WitnessEmpty ==
  /\ queue.op = "pop_front"
  /\ queue.before.size_ = 0
  /\ queue.pushes > 0
  /\ queue.q = queue.before

(***************************************************************************)
(* Claims about what the voter records (specification Spec)                *)
(***************************************************************************)
\* the score array of a stored result can still be read: it was written
\* and has not been deleted
LiveScores(result) == result.scores.ptr \in {"owned", "shared"}

\* C31: after every processLatestResults call that returns kTfLiteOk the
\* back entry of the history has the timestamp current_time_ms and holds
\* the scores supplied in that call, so that they take part in the average
C31_AcceptedRecorded ==
  AcceptedCall =>
    /\ ~empty(recognizer.previous_results_)
    /\ back(recognizer.previous_results_).time_ = ret.current_time_ms
    /\ LiveScores(back(recognizer.previous_results_))

(***************************************************************************)
(* Claims about the timestamps of the pipeline (SpecWriterRestart)         *)
(***************************************************************************)
\* the step is a write(sample) in which the pipeline calls
\* processLatestResults
VoterCallStep ==
  /\ parent'.invocations = parent.invocations + 1
  /\ parent'.invoke_status = kTfLiteOk

\* C32: over the whole life of a pipeline and its voter, begin() called
\* again included, every timestamp passed to processLatestResults is greater
\* than the timestamps of the results the voter holds, and the voter never
\* rejects the result as out of order
C32_TimestampsNeverRegress ==
  [][ VoterCallStep =>
        /\ \A i \in 1 .. Len(History) : History[i] < ret'.current_time_ms
        /\ ~OutOfOrder(recognizer.previous_results_, ret'.current_time_ms) ]_vars

(***************************************************************************)
(* Claims about progress of the pipeline (specification SpecWriterLive)    *)
(***************************************************************************)
\* begin() has returned true on a writer with one of the given numbers of
\* channels
BegunWith(channels) ==
  writer.p_buffer.allocated /\ writer.cfg.channels \in channels

\* C33: for one or two channels, if the caller keeps writing samples after
\* a successful begin(), a feature slice is eventually added and the
\* backend is eventually invoked (neither is undone afterwards, so both
\* hold together from some point on)
C33_SlicingLive ==
  BegunWith({1, 2}) ~> (SlicesAdded > 0 /\ parent.invocations > 0)

(***************************************************************************)
(* Claims about the ring inside the pipeline (specification SpecWriter)    *)
(***************************************************************************)
\* begin() has returned true on a writer with one channel and a stride of
\* at least one sample
MonoPipeline ==
  /\ writer.p_buffer.allocated
  /\ writer.cfg.channels = 1
  /\ writer.kStrideSampleSize > 0

\* C34: with one channel and strideSampleSize > 0, whatever was written so
\* far, the ring has room when the next sample arrives, and the sample
\* written last was stored: it is the newest sample of the ring unless the
\* slice it completed left nothing to keep
C34_NoRingOverflow ==
  MonoPipeline =>
    /\ availableForWrite(writer.p_buffer) > 0
    /\ (input.count > 0 /\ writer.p_buffer.data # <<>>)
          => writer.p_buffer.data[Len(writer.p_buffer.data)] = input.sample
    /\ (input.count > 0 /\ writer.p_buffer.data = <<>>)
          => writer.kKeepSampleSize <= 0

\* three slices were cut, each from a full ring, and the ring was left
\* with the overlap tail only
C34_Witness ==
  /\ MonoPipeline
  /\ SlicesAdded = 3
  /\ Len(writer.p_buffer.data) = writer.kKeepSampleSize
  /\ availableForWrite(writer.p_buffer) = writer.kStrideSampleSize

\* the samples the ring holds once write1 has stored the sample of the step
RingAtSlice == Append(writer.p_buffer.data, input'.sample)

\* C35: every time the pipeline calls addSlice the ring holds exactly
\* audioSampleSize samples, readArray returns them all as the window, and
\* the overlap tail put back into the ring is the end of that window
C35_NoUnderrun ==
  [][ SliceStep =>
        /\ Len(RingAtSlice) = writer.kMaxAudioSampleSize
        /\ writer'.p_audio_samples = RingAtSlice
        /\ writer'.p_buffer.data =
             SubSeq(RingAtSlice, writer.kStrideSampleSize + 1,
                    writer.kMaxAudioSampleSize) ]_vars

\* the second slice was cut: the window ends with the sample just written
\* and the ring holds that sample as the overlap tail
C35_Witness ==
  /\ MonoPipeline
  /\ SlicesAdded = 2
  /\ writer.kKeepSampleSize = 1
  /\ writer.p_audio_samples[writer.kMaxAudioSampleSize] = input.sample
  /\ writer.p_buffer.data = <<input.sample>>

(***************************************************************************)
(* Claims about the default configuration (specification SpecDefault)      *)
(***************************************************************************)
\* C36: in the pipeline with the default configuration (stride 20 ms,
\* batches of 2 slices, window 1000 ms, 50 slots) the history holds fewer
\* than kMaxResults results whenever a result is about to be added, so
\* that push_back never refuses one
C36_DefaultNeverDrops ==
  writer.p_buffer.allocated =>
    /\ size(recognizer.previous_results_) < kMaxResults
    /\ AcceptedCall =>
          back(recognizer.previous_results_).time_ = ret.current_time_ms

\* more results than the queue has slots were accepted, the last of them
\* at 2400 ms, and the window holds the 26 results of the last 1000 ms
C36_Witness ==
  /\ AcceptedCall
  /\ respond.calls > kMaxResults
  /\ ret.current_time_ms = 2400
  /\ size(recognizer.previous_results_) = 26
  /\ front(recognizer.previous_results_).time_ = 1400

(***************************************************************************)
(* Claims about large writes to the stream (specification SpecStreamLarge) *)
(***************************************************************************)
\* C37: with a writer configured, every write(audio, bytes) on the stream
\* returns bytes and forwards all of its floor(bytes/2) samples to the
\* writer, buffers of 65536 bytes and more included: a one-channel writer
\* has then cut every slice that is due after the samples handed to the
\* stream so far
C37_StreamForwardsAll ==
  (stream.last_write.calls > 0 /\ stream.writer # "nullptr" /\ MonoPipeline) =>
    /\ stream.last_write.result = stream.last_write.bytes
    /\ writer.current_time = ExpectedSlices * writer.cfg.kFeatureSliceStrideMs

(***************************************************************************)
(* Claims about int24_t (specification SpecInt24)                          *)
(***************************************************************************)
\* C38: for every 16-bit signed value x, 0 and the negative values
\* included, converting x to int24_t and back to int32_t yields x
C38_Int24RoundTrip ==
  sample24.op = "int16" => sample24.out = sample24.in

\* C38 for every value but 0
C38_RoundTripButZero ==
  (sample24.op = "int16" /\ sample24.in # 0) => sample24.out = sample24.in

(***************************************************************************)
(* Claims about the queue as a FIFO (specification SpecQueue)              *)
(***************************************************************************)
\* the queue read as a sequence, oldest entry first
QueueSeq == [k \in 1 .. size(queue.q) |-> from_front(queue.q, k - 1)]

\* the entry handed to push_back in the step
Pushed == NewResult(Len(QueueScores), queue'.pushes, QueueScores)

\* what a bounded FIFO sequence of the given capacity does in the step
FifoStep(before, after, capacity) ==
  IF queue'.op = "push_back"
  THEN after = IF Len(before) < capacity THEN Append(before, Pushed) ELSE before
  ELSE after = IF before = <<>> THEN <<>> ELSE Tail(before)

\* C39: under every sequence of push_back and pop_front calls, wrapping
\* around the end of the array included, the queue behaves as a bounded
\* FIFO sequence of the results pushed: push_back appends the result (or
\* refuses it when 50 are held), pop_front removes the oldest, from_front(k)
\* is the k-th oldest and back() the most recently pushed
C39_QueueRefinesFifo ==
  [][ (queue.op # "none" /\ queue'.op \in {"push_back", "pop_front"}) =>
        /\ FifoStep(QueueSeq, QueueSeq', kMaxResults)
        /\ size(queue'.q) > 0 => back(queue'.q) = QueueSeq'[size(queue'.q)] ]_vars

\* the same with each result reduced to its timestamp
C39_TimesRefineFifo ==
  [][ (queue.op # "none" /\ queue'.op \in {"push_back", "pop_front"}) =>
        /\ IF queue'.op = "push_back"
           THEN QueueTimes(queue'.q) =
                  IF size(queue.q) < kMaxResults
                  THEN Append(QueueTimes(queue.q), queue'.pushes)
                  ELSE QueueTimes(queue.q)
           ELSE QueueTimes(queue'.q) =
                  IF empty(queue.q) THEN <<>> ELSE Tail(QueueTimes(queue.q))
        /\ size(queue'.q) > 0 =>
             back(queue'.q).time_ = QueueTimes(queue'.q)[size(queue'.q)] ]_vars

=============================================================================
